---- MODULE Spec2Model ----
(***************************************************************************)
(* Model of the BlueBerry session-lock cycling scheduler                   *)
(* (src/src/BlueBerryService.ts, duration variant, lines 1-618).           *)
(*                                                                         *)
(* Strings are sequences of characters, each character a string of the    *)
(* model.  The numbers the program computes with are IEEE 754 doubles; the *)
(* readings of the clocks and the delays handed to the runtime are         *)
(* integers.  Every await of the source is a point where another handler   *)
(* may run: a handler is one action per segment between two awaits.        *)
(***************************************************************************)
EXTENDS Integers, Sequences, FiniteSets, TLC

(***************************************************************************)
(* Bounds of the model                                                     *)
(***************************************************************************)
MaxStarts == 2
MaxTasks == 2
MaxTicks == 2
MaxEnvOps == 1
\* the largest stopAfterCycles setting explored
MaxCycles == 2

\* start() calls explored in the slices that follow a single run
FewStarts == 1
\* the longest duration string explored
MaxLen == 3
\* the longest device listing explored line by line
MaxLines == 2

(***************************************************************************)
(* Program constants                                                       *)
(***************************************************************************)
UNLOCK_TIME_MS == 500
MAX_INTERVAL_MS == 30 * 60 * 1000
DEFAULT_DURATION_MS == 60 * 60 * 1000
LOCK_CMD == "ft_lock"
XDOTOOL_CMD == "xdotool"
XSET_CMD == "xset"
XINPUT_CMD == "xinput"
LOGINCTL_CMD == "loginctl"
REQUIRED_BINARIES == <<"ft_lock", "xdotool", "xset", "xinput", "loginctl">>

\* Granularity of the clocks: one step of Tick advances them by TickMs, or
\* up to a timeout that falls due sooner.
TickMs == UNLOCK_TIME_MS

\* the longest delay a timeout of the runtime takes, 2^31 - 1
TIMEOUT_MAX == (2^30 - 1) * 2 + 1

(***************************************************************************)
(* Strings                                                                 *)
(***************************************************************************)
Undefined == <<"undefined">>
DigitChars == {"0", "1", "2", "3", "4", "5", "6", "7", "8", "9"}
\* A character is a one-element token of the model.  The characters that
\* String.prototype.trim strips and \s matches are the blank, the tab, the
\* line feed, the carriage return, the form feed, the vertical tab (U+000B),
\* the no-break space (U+00A0) and the Unicode spaces, line and paragraph
\* separators and byte order mark below, which are named by code point.
UnicodeSpaces ==
  {"U+1680", "U+2000", "U+2001", "U+2002", "U+2003", "U+2004", "U+2005",
   "U+2006", "U+2007", "U+2008", "U+2009", "U+200A", "U+2028", "U+2029",
   "U+202F", "U+205F", "U+3000", "U+FEFF"}

WhiteChars ==
  {" ", "\t", "\n", "\r", "\f", "", " "} \cup UnicodeSpaces

DigitVal(c) ==
  CASE c = "0" -> 0 [] c = "1" -> 1 [] c = "2" -> 2 [] c = "3" -> 3
    [] c = "4" -> 4 [] c = "5" -> 5 [] c = "6" -> 6 [] c = "7" -> 7
    [] c = "8" -> 8 [] c = "9" -> 9

DigitChar(d) == <<"0", "1", "2", "3", "4", "5", "6", "7", "8", "9">>[d + 1]

RECURSIVE TrimLeft(_)
TrimLeft(s) ==
  IF s # <<>> /\ Head(s) \in WhiteChars THEN TrimLeft(Tail(s)) ELSE s

RECURSIVE TrimRight(_)
TrimRight(s) ==
  IF s # <<>> /\ s[Len(s)] \in WhiteChars
    THEN TrimRight(SubSeq(s, 1, Len(s) - 1))
    ELSE s

\* String.prototype.trim
Trim(s) == TrimRight(TrimLeft(s))

\* (value)?.trim(): undefined stays undefined
OptTrim(v) == IF v = Undefined THEN Undefined ELSE Trim(v)

\* JavaScript truthiness of an optional string: undefined and "" are falsy
Truthy(v) == v # Undefined /\ v # <<>>

\* Number.prototype.toString for a non-negative integer
RECURSIVE IdToString(_)
IdToString(n) ==
  IF n < 10 THEN <<DigitChar(n)>>
  ELSE Append(IdToString(n \div 10), DigitChar(n % 10))

\* the longest prefix of s made of digits
RECURSIVE DigitPrefix(_)
DigitPrefix(s) ==
  IF s # <<>> /\ Head(s) \in DigitChars
    THEN <<Head(s)>> \o DigitPrefix(Tail(s))
    ELSE <<>>

RECURSIVE DigitsValue(_)
DigitsValue(ds) ==
  IF ds = <<>> THEN 0
  ELSE 10 * DigitsValue(SubSeq(ds, 1, Len(ds) - 1)) + DigitVal(ds[Len(ds)])

(***************************************************************************)
(* Numbers                                                                 *)
(*                                                                         *)
(* A JavaScript number is an IEEE 754 double: NaN, or (-1)^neg * m * 2^e   *)
(* with m below 2^53.  The mantissa m is a sequence of limbs in base 2^15, *)
(* least significant first and without a leading zero limb.  A number is   *)
(* held with m odd (zero: no limb, e = 0), so that two numbers are equal   *)
(* exactly when their records are.  Every product and sum is rounded to    *)
(* the nearest double, ties to even, as the hardware does.  The numbers    *)
(* reached stay between 2^-1022 and 2^1024 in size: no infinity, no        *)
(* subnormal and no negative zero is held.                                 *)
(***************************************************************************)
LimbBase == 2^15
\* the bits of the mantissa of a double
Precision == 53
\* the bits a quotient keeps beyond those of a power of ten
GuardBits == Precision + 7

\* the natural numbers of any size, as their limbs from the lowest up
BigNat == Seq(Nat)

Pow2[k \in Nat] == IF k = 0 THEN 1 ELSE 2 * Pow2[k - 1]

BitLength[n \in Nat] == IF n = 0 THEN 0 ELSE 1 + BitLength[n \div 2]

LimbBits == BitLength[LimbBase - 1]

TrailingZeros[n \in Nat \ {0}] ==
  IF n % 2 = 1 THEN 0 ELSE 1 + TrailingZeros[n \div 2]

BigTrim[a \in BigNat] ==
  IF a # <<>> /\ a[Len(a)] = 0 THEN BigTrim[SubSeq(a, 1, Len(a) - 1)] ELSE a

BigOfInt[n \in Nat] ==
  IF n = 0 THEN <<>> ELSE <<n % LimbBase>> \o BigOfInt[n \div LimbBase]

BigToInt[a \in BigNat] ==
  IF a = <<>> THEN 0 ELSE Head(a) + LimbBase * BigToInt[Tail(a)]

\* a * c + carry, for 0 < c < 2^15
BigTimes[a \in BigNat, c \in Nat, carry \in Nat] ==
  IF a = <<>> THEN BigOfInt[carry]
  ELSE LET v == Head(a) * c + carry
       IN  <<v % LimbBase>> \o BigTimes[Tail(a), c, v \div LimbBase]

\* quotient and remainder by 0 < d <= 2^15 of the limbs a[i..Len(a)]
BigDivide[a \in BigNat, d \in Nat, i \in Nat] ==
  IF i > Len(a) THEN [q |-> <<>>, r |-> 0]
  ELSE LET high == BigDivide[a, d, i + 1]
           cur == high.r * LimbBase + a[i]
       IN  [q |-> <<cur \div d>> \o high.q, r |-> cur % d]

BigDiv[a \in BigNat, d \in Nat] ==
  LET x == BigDivide[a, d, 1] IN [q |-> BigTrim[x.q], r |-> x.r]

BigAdd[a \in BigNat, b \in BigNat, carry \in Nat] ==
  IF a = <<>> /\ b = <<>> THEN BigOfInt[carry]
  ELSE LET x == IF a = <<>> THEN 0 ELSE Head(a)
           y == IF b = <<>> THEN 0 ELSE Head(b)
           v == x + y + carry
       IN  <<v % LimbBase>>
             \o BigAdd[IF a = <<>> THEN a ELSE Tail(a),
                       IF b = <<>> THEN b ELSE Tail(b), v \div LimbBase]

\* a - b - borrow, for a >= b + borrow
BigSubtract[a \in BigNat, b \in BigNat, borrow \in Nat] ==
  IF a = <<>> THEN <<>>
  ELSE LET y == IF b = <<>> THEN 0 ELSE Head(b)
           v == Head(a) - y - borrow
       IN  <<(v + LimbBase) % LimbBase>>
             \o BigSubtract[Tail(a), IF b = <<>> THEN b ELSE Tail(b),
                            IF v < 0 THEN 1 ELSE 0]

BigSub[a \in BigNat, b \in BigNat] == BigTrim[BigSubtract[a, b, 0]]

BigCompareAt[a \in BigNat, b \in BigNat, i \in Nat] ==
  IF i = 0 THEN 0
  ELSE IF a[i] > b[i] THEN 1
  ELSE IF a[i] < b[i] THEN 0 - 1
  ELSE BigCompareAt[a, b, i - 1]

\* -1, 0 or 1 as a is below, equal to or above b
BigCompare[a \in BigNat, b \in BigNat] ==
  IF Len(a) > Len(b) THEN 1
  ELSE IF Len(a) < Len(b) THEN 0 - 1
  ELSE BigCompareAt[a, b, Len(a)]

BigBits[a \in BigNat] ==
  IF a = <<>> THEN 0 ELSE LimbBits * (Len(a) - 1) + BitLength[a[Len(a)]]

\* a * 2^k
BigShiftLeft[a \in BigNat, k \in Nat] ==
  IF a = <<>> THEN <<>>
  ELSE [i \in 1..(k \div LimbBits) |-> 0]
         \o BigTimes[a, Pow2[k % LimbBits], 0]

\* a \div 2^k, and whether a one bit was shifted out
BigShiftRight[a \in BigNat, k \in Nat] ==
  LET n == k \div LimbBits
      low == SubSeq(a, 1, IF n < Len(a) THEN n ELSE Len(a))
      high == IF n < Len(a) THEN SubSeq(a, n + 1, Len(a)) ELSE <<>>
      x == BigDiv[high, Pow2[k % LimbBits]]
  IN  [q |-> x.q,
       lost |-> x.r # 0 \/ \E i \in DOMAIN low : low[i] # 0]

NaN == [nan |-> TRUE, neg |-> FALSE, m |-> <<>>, e |-> 0]
Zero == [nan |-> FALSE, neg |-> FALSE, m |-> <<>>, e |-> 0]

\* the numbers: NaN, or (-1)^neg * m * 2^e with m odd or zero
Numbers == [nan : BOOLEAN, neg : BOOLEAN, m : BigNat, e : Int]

\* the number (-1)^neg * M * 2^e, for M below 2^53
Exact[neg \in BOOLEAN, M \in BigNat, e \in Int] ==
  IF M = <<>> THEN Zero
  ELSE LET n == CHOOSE i \in DOMAIN M :
                  M[i] # 0 /\ \A j \in 1..(i - 1) : M[j] = 0
           z == TrailingZeros[M[n]]
       IN  [nan |-> FALSE, neg |-> neg,
            m |-> BigDiv[SubSeq(M, n, Len(M)), Pow2[z]].q,
            e |-> e + LimbBits * (n - 1) + z]

\* the double nearest to (-1)^neg * (M + f) * 2^e, ties to even, where
\* 0 <= f < 1 and f > 0 exactly when `more`; with M below 2^53, f is 0
Round[neg \in BOOLEAN, M \in BigNat, e \in Int, more \in BOOLEAN] ==
  LET k == BigBits[M] - Precision
  IN  IF k <= 0 THEN Exact[neg, M, e]
      ELSE LET s == BigShiftRight[M, k - 1]
               half == s.q[1] % 2 = 1
               q == BigDiv[s.q, 2].q
               odd == q[1] % 2 = 1
               up == half /\ (s.lost \/ more \/ odd)
           IN  Exact[neg, IF up THEN BigAdd[q, <<1>>, 0] ELSE q, e + k]

\* the number that is the integer n
FromInt[n \in Int] == Exact[n < 0, BigOfInt[IF n < 0 THEN 0 - n ELSE n], 0]

\* x * c for an integer 0 < c < 2^15
Times[x \in Numbers, c \in Nat] ==
  IF x.nan THEN NaN ELSE Round[x.neg, BigTimes[x.m, c, 0], x.e, FALSE]

Negated[x \in Numbers] ==
  IF x.nan \/ x.m = <<>> THEN x ELSE [x EXCEPT !.neg = ~x.neg]

\* x + y
Plus[x \in Numbers, y \in Numbers] ==
  IF x.nan \/ y.nan THEN NaN
  ELSE LET e == IF x.e < y.e THEN x.e ELSE y.e
           a == BigShiftLeft[x.m, x.e - e]
           b == BigShiftLeft[y.m, y.e - e]
       IN  IF x.neg = y.neg THEN Round[x.neg, BigAdd[a, b, 0], e, FALSE]
           ELSE IF BigCompare[a, b] >= 0
             THEN Round[x.neg, BigSub[a, b], e, FALSE]
           ELSE Round[y.neg, BigSub[b, a], e, FALSE]

\* x - y
Minus[x \in Numbers, y \in Numbers] == Plus[x, Negated[y]]

\* -1, 0 or 1 as x is below, equal to or above y; neither is NaN
Compare[x \in Numbers, y \in Numbers] ==
  LET e == IF x.e < y.e THEN x.e ELSE y.e
      size == BigCompare[BigShiftLeft[x.m, x.e - e],
                         BigShiftLeft[y.m, y.e - e]]
  IN  IF x.neg # y.neg THEN (IF x.neg THEN 0 - 1 ELSE 1)
      ELSE IF x.neg THEN 0 - size
      ELSE size

\* IEEE comparisons: false as soon as one side is NaN
NumGt(a, b) == ~a.nan /\ ~b.nan /\ Compare[a, b] > 0
NumGe(a, b) == ~a.nan /\ ~b.nan /\ Compare[a, b] >= 0
NumEq(a, b) == ~a.nan /\ ~b.nan /\ a = b

\* Math.trunc of a number below 2^31 in size, as an integer
Trunc[x \in Numbers] ==
  LET n == BigToInt[IF x.e >= 0 THEN BigShiftLeft[x.m, x.e]
                    ELSE BigShiftRight[x.m, 0 - x.e].q]
  IN  IF x.neg THEN 0 - n ELSE n

\* the integer a string of decimal digits stands for
BigOfDigits[ds \in Seq(DigitChars)] ==
  IF ds = <<>> THEN <<>>
  ELSE BigTimes[BigOfDigits[SubSeq(ds, 1, Len(ds) - 1)], 10,
                DigitVal(ds[Len(ds)])]

\* a \div 10^s, and whether a remainder was dropped
BigTenth[a \in BigNat, s \in Nat] ==
  IF s = 0 THEN [q |-> a, more |-> FALSE]
  ELSE LET y == BigTenth[a, s - 1]
           x == BigDiv[y.q, 10]
       IN  [q |-> x.q, more |-> y.more \/ x.r # 0]

\* the decimal literals: digits / 10^scale, or none
Decimals == [nan : BOOLEAN, digits : Seq(DigitChars), scale : Nat]

\* the double a decimal literal stands for: the one nearest to
\* digits / 10^scale.  The quotient keeps k bits below the binary point,
\* enough for it to have more than 53 bits; what is dropped below them
\* only breaks ties.
DoubleOf[f \in Decimals] ==
  IF f.nan THEN NaN
  ELSE LET k == IF f.scale = 0 THEN 0 ELSE GuardBits + 4 * f.scale
           x == BigTenth[BigShiftLeft[BigOfDigits[f.digits], k], f.scale]
       IN  Round[FALSE, x.q, 0 - k, x.more]

(***************************************************************************)
(* Durations and intervals                                                 *)
(***************************************************************************)
\* the longest prefix of a string of digits and dots that is a decimal
\* literal, as [nan, digits, scale] standing for digits / 10^scale
DecimalPrefix[s \in Seq(STRING)] ==
  LET ip == DigitPrefix(s)
      rest == SubSeq(s, Len(ip) + 1, Len(s))
      hasDot == rest # <<>> /\ Head(rest) = "."
      fp == IF hasDot THEN DigitPrefix(Tail(rest)) ELSE <<>>
  IN  IF ip = <<>> /\ fp = <<>>
        THEN [nan |-> TRUE, digits |-> <<>>, scale |-> 0]
        ELSE [nan |-> FALSE, digits |-> ip \o fp, scale |-> Len(fp)]

\* parseFloat on a string of digits and dots
ParseFloat(s) == DoubleOf[DecimalPrefix[s]]

\* lines 69-74: value * f1 * f2 * ..., one product after the other, each
\* one rounded
RECURSIVE Scaled(_, _)
Scaled(value, factors) ==
  IF factors = <<>> THEN value
  ELSE Scaled(Times[value, Head(factors)], Tail(factors))

\* /^([\d.]+)([hms])$/i
DurationMatch(t) ==
  /\ Len(t) >= 2
  /\ t[Len(t)] \in {"h", "m", "s", "H", "M", "S"}
  /\ \A i \in 1..(Len(t) - 1) : t[i] \in DigitChars \cup {"."}

ToLowerUnit(c) ==
  CASE c \in {"h", "H"} -> "h" [] c \in {"m", "M"} -> "m" [] OTHER -> "s"

parseDuration(duration) ==
  LET t == Trim(duration)
  IN  IF ~DurationMatch(t) THEN FromInt[DEFAULT_DURATION_MS]
      ELSE LET value == ParseFloat(SubSeq(t, 1, Len(t) - 1))
               unit == ToLowerUnit(t[Len(t)])
           IN  CASE unit = "h" -> Scaled(value, <<60, 60, 1000>>)
                 [] unit = "m" -> Scaled(value, <<60, 1000>>)
                 [] unit = "s" -> Scaled(value, <<1000>>)

\* a parse that logs "Invalid duration format"
parseDurationLogsError(duration) == ~DurationMatch(Trim(duration))

validateLockIntervals_NoOrder(minMs, maxMs) ==
  IF NumGt(minMs, FromInt[MAX_INTERVAL_MS]) THEN "minExceeds"
  ELSE IF NumGt(maxMs, FromInt[MAX_INTERVAL_MS]) THEN "maxExceeds"
  ELSE "valid"

validateLockIntervals(minMs, maxMs) ==
  IF NumGt(minMs, FromInt[MAX_INTERVAL_MS]) THEN "minExceeds"
  ELSE IF NumGt(maxMs, FromInt[MAX_INTERVAL_MS]) THEN "maxExceeds"
  ELSE IF NumGt(minMs, maxMs) THEN "minGreaterThanMax"
  ELSE "valid"

\* Math.random() is one of 0, 1/4, 2/4, 3/4
RandomDraws == 0..3

\* (r / 4) * x
RandomTimes[r \in RandomDraws, x \in Numbers] ==
  IF x.nan THEN NaN
  ELSE Round[x.neg, BigTrim[BigTimes[x.m, r, 0]], x.e - 2, FALSE]

getRandomLockInterval(minMs, maxMs, r) ==
  IF NumEq(minMs, maxMs) THEN minMs
  ELSE Plus[RandomTimes[r, Minus[maxMs, minMs]], minMs]

\* lines 352-355, with the reading of Date.now() and the start timestamp
hasTimeExpired(nowMs, startMs, durationMs) ==
  NumGe(FromInt[nowMs - startMs], durationMs)

\* the delay of setTimeout(callback, ms): a delay that is NaN, below 1 or
\* above TIMEOUT_MAX becomes 1, and the timer takes the whole milliseconds
\* of any other
TimeoutDelay(ms) ==
  IF NumGe(ms, FromInt[1]) /\ NumGe(FromInt[TIMEOUT_MAX], ms) THEN Trunc[ms]
  ELSE 1

(***************************************************************************)
(* Host, configuration and user inputs                                     *)
(***************************************************************************)
S_0s == <<"0", "s">>
S_1s == <<"1", "s">>
S_half == <<"0", ".", "5", "s">>
S_31m == <<"3", "1", "m">>
S_bad == <<"x">>
S_dot == <<".", "s">>

Cfg(dry, dur, lo, hi) ==
  [dryRun |-> dry, duration |-> dur, lockIntervalMin |-> lo,
   lockIntervalMax |-> hi]

Configs ==
  { Cfg(FALSE, S_1s, S_half, S_half),
    Cfg(TRUE, S_1s, S_half, S_half),
    Cfg(FALSE, S_0s, S_half, S_1s),
    Cfg(FALSE, S_1s, S_31m, S_31m),
    Cfg(FALSE, S_1s, S_1s, S_half),
    Cfg(TRUE, S_0s, S_half, S_bad),
    Cfg(FALSE, S_1s, S_dot, S_dot) }

SecretInputs ==
  { Undefined, <<>>, <<" ">>, <<"p">>, <<" ", "p", "\n">>,
    <<" ", "p", "">>, <<"U+FEFF", "p", "U+2028">> }
StoredSecrets == { Undefined, <<>>, <<"\t">>, <<"p">> }
MissingOptions == { {}, {"xdotool"}, {"ft_lock", "loginctl"} }

\* one line of `xinput list`: the marker texts it contains and the digits
\* of its id=<digits> token (empty when the line has none)
Line(ws, id) == [words |-> ws, id |-> id]

MockListing ==
  << Line({"Virtual core pointer", "master pointer"}, <<"2">>),
     Line({"Virtual core XTEST pointer", "slave  pointer"}, <<"4">>),
     Line({"Logitech USB", "Mouse", "slave  pointer"}, <<"9">>),
     Line({"Virtual core keyboard", "master keyboard"}, <<"3">>),
     Line({"Virtual core XTEST keyboard", "slave  keyboard"}, <<"5">>),
     Line({"AT Translated Set 2", "wired keyboard", "slave  keyboard"},
          <<"1", "0">>) >>

Listings ==
  { MockListing,
    <<>>,
    << Line({"mouse", "slave  pointer"}, <<"7">>),
       Line({"Mouse", "slave  pointer"}, <<"8">>),
       Line({"wired keyboard", "slave  keyboard"}, <<>>) >> }

\* the session record loginctl prints in dry-run mode
MockSessions ==
  << <<"c", "5", "4", " ", "1", "0", "3", "4", "5", "7", " ", "a", "b",
       "e", "n", "n", "a", "r", " ", "s", "e", "a", "t", "0">> >>

SessionOutputs ==
  { MockSessions, <<>>, << <<" ", " ", "U+3000">>, <<" ", "7", "", "u">> >> }

(***************************************************************************)
(* Device and session parsing                                              *)
(***************************************************************************)
isKeyboardLine(line) ==
  "slave  keyboard" \in line.words /\ "wired keyboard" \in line.words

isMouseLine_AnyPointer(line) == "slave  pointer" \in line.words

isMouseLine(line) ==
  /\ "slave  pointer" \in line.words
  /\ ("Mouse" \in line.words \/ "mouse" \in line.words)

RECURSIVE MatchingIds(_, _)
MatchingIds(lines, keyboard) ==
  IF lines = <<>> THEN <<>>
  ELSE LET line == Head(lines)
           hit == /\ IF keyboard THEN isKeyboardLine(line)
                                 ELSE isMouseLine(line)
                  /\ line.id # <<>>
       IN  (IF hit THEN <<DigitsValue(line.id)>> ELSE <<>>)
             \o MatchingIds(Tail(lines), keyboard)

\* the result of an awaited command: ok carries its output
Failed == [ok |-> FALSE, out |-> <<>>]
Ok(out) == [ok |-> TRUE, out |-> out]

getMouseIds_KeepOnFail(res) ==
  MatchingIds(IF res.ok THEN res.out ELSE MockListing, FALSE)

getKeyboardIds(res) == IF res.ok THEN MatchingIds(res.out, TRUE) ELSE <<>>
getMouseIds(res) == IF res.ok THEN MatchingIds(res.out, FALSE) ELSE <<>>

KeyboardIdsError == "Error getting keyboard IDs:"
MouseIdsError == "Error getting mouse IDs:"

getMouseIdsLogs_Silent(res) == <<>>

\* lines 230-232, 255-257: what the catch around the query passes to
\* logError for the outcome res
getKeyboardIdsLogs(res) == IF res.ok THEN <<>> ELSE <<KeyboardIdsError>>
getMouseIdsLogs(res) == IF res.ok THEN <<>> ELSE <<MouseIdsError>>

\* trimmed.split(/\s+/)[0]
RECURSIVE FirstField(_)
FirstField(s) ==
  IF s = <<>> \/ Head(s) \in WhiteChars THEN <<>>
  ELSE <<Head(s)>> \o FirstField(Tail(s))

RECURSIVE FirstSession(_)
FirstSession(lines) ==
  IF lines = <<>> THEN Undefined
  ELSE IF Trim(Head(lines)) # <<>> THEN FirstField(Trim(Head(lines)))
  ELSE FirstSession(Tail(lines))

getCurrentSessionId(res) == IF res.ok THEN FirstSession(res.out) ELSE Undefined

(***************************************************************************)
(* State                                                                   *)
(***************************************************************************)
VARIABLES
  active,                  \* BlueBerryService.active
  currentLoopTask,         \* 0 is null, otherwise the id of a loopTask call
  requiredBinariesChecked,
  activeTimeouts,          \* the Set of timeout ids
  startTime,
  armed,                   \* timeouts the runtime will still fire
  secretStore,             \* the "blueberry-secret" entry of the Secret Store
  config,                  \* workspace configuration "blueberry"
  hostMissing,             \* required binaries `which` does not find
  hostFaults,              \* the programs whose spawn may fail on this host
  hostUnresponsive,        \* the devices whose toggle child never exits
  hostListings,            \* what `xinput list` may print on this host
  hostSessions,            \* what `loginctl list-sessions` may print
  now,                     \* Date.now()
  loopNow,                 \* the loop time of the runtime, which its timeouts
                           \* are measured on
  tasks,                   \* the loopTask() calls made so far
  nextTask,
  starts,                  \* the start() calls made so far
  nextStart,
  envOps,                  \* settings and Secret Store operations so far
  limit                    \* how many calls, ticks and operations are explored

vars ==
  <<active, currentLoopTask, requiredBinariesChecked, activeTimeouts,
    startTime, armed, secretStore, config, hostMissing, hostFaults,
    hostUnresponsive, hostListings, hostSessions, now, loopNow, tasks,
    nextTask, starts, nextStart, envOps, limit>>

schedVars == <<active, currentLoopTask, activeTimeouts, startTime>>

TaskIds == DOMAIN tasks
StartIds == DOMAIN starts

Limit(s, t, k, e) == [starts |-> s, tasks |-> t, ticks |-> k, envOps |-> e]

\* the frame of a loopTask call.  `answer` is what the secretStorage.get it
\* awaits resolves with: the entry of the Secret Store when get was called.
\* `errors` holds the messages the call has passed to logError.
NoTask ==
  [pc |-> "none", answer |-> Undefined, secret |-> Undefined,
   dryRun |-> FALSE, lockIntervalMs |-> Zero, minMs |-> Zero, maxMs |-> Zero,
   mouseIds |-> <<>>, keyboardIds |-> <<>>, idx |-> 0, cmds |-> <<>>,
   errors |-> <<>>, deadline |-> 0, exit |-> "none", cancelled |-> "no"]

\* the frame of a start() call
NoStart ==
  [pc |-> "none", answer |-> Undefined, dryRun |-> FALSE, probe |-> 0,
   missing |-> <<>>, cmds |-> <<>>, outcome |-> "none"]

Command_Spawn(cmd, sub, arg) ==
  [mode |-> "spawn", cmd |-> cmd, sub |-> sub, arg |-> arg]

\* a command handed to the Command Executor: spawned, or logged in dry-run
Command(cmd, sub, arg) ==
  [mode |-> IF config.dryRun THEN "log" ELSE "spawn",
   cmd |-> cmd, sub |-> sub, arg |-> arg]

LastMode(r) == r.cmds[Len(r.cmds)].mode

RunOutcomes_Swallowed(r) == {TRUE}

RunOutcomes_StopKills(r) == IF active THEN {TRUE} ELSE {FALSE}

LastCmd(r) == r.cmds[Len(r.cmds)].cmd

\* lines 126-130, 160-174: spawn of a program the host lacks emits 'error'
\* (ENOENT), which rejects the promise
MustFail(r) == LastMode(r) = "spawn" /\ LastCmd(r) \in hostMissing

\* the spawn can emit 'error': the program is missing or may fail to start
MayFail(r) ==
  LastMode(r) = "spawn" /\ LastCmd(r) \in hostFaults \cup hostMissing

\* outcomes of runCommandAsync: resolves in dry-run, may reject when spawned
RunOutcomes(r) ==
  IF MustFail(r) THEN {FALSE}
  ELSE IF MayFail(r) THEN {TRUE, FALSE}
  ELSE {TRUE}

Prefixes(s) == { SubSeq(s, 1, k) : k \in 0..Len(s) }

\* lines 160-188: what `stdout` holds when the promise settles, for a child
\* that writes one of outs.  The promise resolves on the child's 'exit'
\* event, which may come before some or all of the 'data' events of its
\* stdout: what is read is the output up to some point, here up to the end
\* of one of its lines.
ReadOutputs(outs) == UNION { Prefixes(out) : out \in outs }

\* the lines of the outputs outs
LinesOf(outs) == UNION { { out[k] : k \in DOMAIN out } : out \in outs }

\* the same with the last line read cut short, to one of cut[line]
ReadCut(outs, cut) ==
  UNION { UNION { { Append(SubSeq(out, 1, k - 1), c) : c \in cut[out[k]] } :
                    k \in 1..Len(out) } : out \in outs }

\* a line of `xinput list` names the device, then its id, then its type
\* between brackets: a line cut short has lost the type
CutLine(line) ==
  { Line(line.words \ {"master pointer", "slave  pointer", "master keyboard",
                         "slave  keyboard"}, id) : id \in Prefixes(line.id) }

\* outcomes of execAndWaitForOutput("xinput", ["list"])
ListingOutcomes(r) ==
  IF LastMode(r) = "log" THEN {Ok(MockListing)}
  ELSE IF MustFail(r) THEN {Failed}
  ELSE (IF MayFail(r) THEN {Failed} ELSE {})
         \cup {Ok(l) : l \in ReadOutputs(hostListings)}
         \cup {Ok(l) : l \in ReadCut(hostListings,
                                      [x \in LinesOf(hostListings) |->
                                         CutLine(x)])}

\* outcomes of execAndWaitForOutput("loginctl", ["list-sessions", ...])
SessionOutcomes(r) ==
  IF LastMode(r) = "log" THEN {Ok(MockSessions)}
  ELSE IF MustFail(r) THEN {Failed}
  ELSE (IF MayFail(r) THEN {Failed} ELSE {})
         \cup {Ok(l) : l \in ReadOutputs(hostSessions)}
         \cup {Ok(l) : l \in ReadCut(hostSessions,
                                      [x \in LinesOf(hostSessions) |->
                                         Prefixes(x)])}

\* Date.now() and the loop time of the runtime count the milliseconds of two
\* clocks that are not in phase: while the loop time reads t, Date.now()
\* reads t or, having ticked first, t + 1.
WallClock(t) == {t, t + 1}

\* the service as its constructor leaves it (lines 6-11, 28-33), with no
\* call made yet
Constructed(lim) ==
  /\ active = FALSE
  /\ currentLoopTask = 0
  /\ requiredBinariesChecked = FALSE
  /\ activeTimeouts = {}
  /\ startTime = 0
  /\ armed = {}
  /\ loopNow = 0
  /\ now \in WallClock(0)
  /\ limit = lim
  /\ tasks = [t \in 1..lim.tasks |-> NoTask]
  /\ nextTask = 0
  /\ starts = [s \in 1..lim.starts |-> NoStart]
  /\ nextStart = 0
  /\ envOps = 0

RealCfg == Cfg(FALSE, S_1s, S_half, S_half)
DryCfg == Cfg(TRUE, S_1s, S_half, S_half)

\* a host with every binary installed where ft_lock may fail to spawn, a
\* stored secret and valid settings
Init ==
  /\ Constructed(Limit(MaxStarts, MaxTasks, MaxTicks, 0))
  /\ secretStore = <<"p">>
  /\ config = RealCfg
  /\ hostMissing = {}
  /\ hostFaults = {LOCK_CMD}
  /\ hostUnresponsive = {}
  /\ hostListings = {MockListing}
  /\ hostSessions = {MockSessions}

(***************************************************************************)
(* sleep() and stop()                                                      *)
(***************************************************************************)
clearTimeouts_Skip(armedSet, timeouts) == armedSet

\* clearTimeout on every member of activeTimeouts
clearTimeouts(armedSet, timeouts) == armedSet \ timeouts

stopLoopTask_Keep(cur) == cur

\* what stop() leaves in currentLoopTask
stopLoopTask(cur) == 0

\* the body of stop(); tk is the task table as the caller leaves it
StopBody(tk) ==
  /\ active' = FALSE
  /\ armed' = clearTimeouts(armed, activeTimeouts)
  /\ activeTimeouts' = {}
  /\ currentLoopTask' = stopLoopTask(currentLoopTask)
  /\ tasks' = [t \in TaskIds |->
                 IF t \in activeTimeouts
                   THEN [tk[t] EXCEPT !.cancelled = tk[t].pc]
                   ELSE tk[t]]

\* sleep(ms) called by task t: the timeout is armed and added to the Set.
\* The runtime fires it once its loop time has advanced by the delay.
Sleeping(r, pc, ms) ==
  [r EXCEPT !.pc = pc, !.deadline = loopNow + TimeoutDelay(ms)]

(***************************************************************************)
(* loopTask                                                                *)
(***************************************************************************)
HostSame ==
  UNCHANGED <<hostMissing, hostFaults, hostUnresponsive, hostListings,
              hostSessions, limit>>

EnvSame ==
  /\ UNCHANGED <<requiredBinariesChecked, startTime, secretStore, config,
                 now, loopNow, starts, nextStart, envOps>>
  /\ HostSame

\* loopTask returns: its promise resolves and its frame is dropped
Returned(r, exit) == [NoTask EXCEPT !.pc = "done", !.exit = exit]

\* an awaited command rejects: loopTask rejects at the step r.pc
Rejected(r) == [NoTask EXCEPT !.pc = "failed", !.exit = r.pc]

Issue_Twice(r, c) == [r EXCEPT !.cmds = Append(Append(@, c), c)]

\* the executor receives command c from the call with frame r
Issue(r, c) == [r EXCEPT !.cmds = Append(@, c)]

DpmsOff == Command(XSET_CMD, "dpms", <<"force", "off">>)

Void_Awaited(r, c) ==
  IF c.mode = "spawn" /\ c.cmd \in hostFaults \cup hostMissing
    THEN Rejected(r)
  ELSE Issue(r, c)

\* `void this.runCommandAsync(...)`: the executor receives the command and
\* the promise is dropped, so that the call goes on at once and no step of
\* it depends on how, or whether, the command settles
Void(r, c) == Issue(r, c)

loopAborts_NoSecretCheck(secret, isActive) == ~isActive

loopAborts_NoActiveCheck(secret, isActive) == ~Truthy(secret)

\* the secret check at the top of loopTask: TRUE when the cycle must return
loopAborts(secret, isActive) == ~Truthy(secret) \/ ~isActive

loopContinues_Always(isActive) == TRUE

\* the decision that closes a cycle: create the next loopTask call
loopContinues(isActive) == isActive

\* the check after each sleep: TRUE when the cycle must return
stoppedDuringSleep(isActive) == ~isActive

\* lines 193-197, 203-207: the catch around each toggle swallows its
\* rejection, so the loop goes on whether the toggle resolved or not
IgnoreErrors(ok) == TRUE

LastArg(r) == r.cmds[Len(r.cmds)].arg

\* lines 126-131: the promise of a spawned command settles on the 'error'
\* or the 'exit' event of its child and on nothing else.  The toggle of a
\* device that does not respond is a child that never exits.
NeverExits(r) ==
  /\ LastMode(r) = "spawn"
  /\ LastCmd(r) = XINPUT_CMD
  /\ \E id \in hostUnresponsive : LastArg(r) = IdToString(id)

\* outcomes of the toggle a device loop is waiting for, if it waits for
\* one: none when the toggle never settles
ToggleOutcomes(r) ==
  IF r.idx = 0 THEN {TRUE}
  ELSE IF NeverExits(r) THEN RunOutcomes(r) \ {TRUE}
  ELSE RunOutcomes(r)

DevicePhase_Skip(r, pc, sub, ids) == [r EXCEPT !.pc = pc, !.idx = Len(ids)]

\* disableInputDevices / enableInputDevices entered with the list ids
DevicePhase(r, pc, sub, ids) ==
  IF ids = <<>> THEN [r EXCEPT !.pc = pc, !.idx = 0]
  ELSE [Issue(r, Command(XINPUT_CMD, sub, IdToString(ids[1])))
          EXCEPT !.pc = pc, !.idx = 1]

\* line 358: a call runs up to the await of secretStorage.get, which
\* reads the entry of the Secret Store as it is then
AwaitingSecret(r) == [r EXCEPT !.pc = "getSecret", !.answer = secretStore]

\* loopTask() is called
LoopTaskCall(tk) == [tk EXCEPT ![nextTask + 1] = AwaitingSecret(NoTask)]

\* lines 358-416: from the resolved secret to the first device query
LoopEntry(t) ==
  /\ tasks[t].pc = "getSecret"
  /\ LET secret == OptTrim(tasks[t].answer)
         r0 == [tasks[t] EXCEPT !.secret = secret, !.answer = Undefined]
         durationMs == parseDuration(config.duration)
         minMs == parseDuration(config.lockIntervalMin)
         maxMs == parseDuration(config.lockIntervalMax)
         r1 == [r0 EXCEPT !.dryRun = config.dryRun, !.minMs = minMs,
                          !.maxMs = maxMs]
     IN  IF loopAborts(secret, active)
           THEN /\ tasks' = [tasks EXCEPT ![t] =
                               Returned(r0, "abort")]
                /\ UNCHANGED <<active, armed, activeTimeouts, currentLoopTask>>
         ELSE IF validateLockIntervals(minMs, maxMs) # "valid"
           THEN StopBody([tasks EXCEPT ![t] =
                            Returned(r1, validateLockIntervals(minMs, maxMs))])
         ELSE IF hasTimeExpired(now, startTime, durationMs)
           THEN /\ tasks' = [tasks EXCEPT ![t] =
                     [Issue(r1, Command(LOGINCTL_CMD, "list-sessions",
                                        <<"--no-legend">>))
                        EXCEPT !.pc = "listSessions"]]
                /\ UNCHANGED <<active, armed, activeTimeouts, currentLoopTask>>
         ELSE /\ \E d \in RandomDraws :
                   tasks' = [tasks EXCEPT ![t] =
                     [Issue(r1, Command(XINPUT_CMD, "list", <<>>))
                        EXCEPT !.pc = "mouseIds",
                               !.lockIntervalMs =
                                  getRandomLockInterval(minMs, maxMs, d)]]
              /\ UNCHANGED <<active, armed, activeTimeouts, currentLoopTask>>
  /\ UNCHANGED nextTask
  /\ EnvSame

\* lines 300-350, 396-401: the session list arrives
LoopSessions(t) ==
  /\ tasks[t].pc = "listSessions"
  /\ \E res \in SessionOutcomes(tasks[t]) :
       LET sessionId == getCurrentSessionId(res)
       IN  IF sessionId = Undefined \/ sessionId = <<>>
             THEN StopBody([tasks EXCEPT ![t] = Returned(@, "expired")])
             ELSE /\ tasks' = [tasks EXCEPT ![t] =
                       [Issue(@, Command(LOGINCTL_CMD, "terminate-session",
                                         sessionId))
                          EXCEPT !.pc = "terminate"]]
                  /\ UNCHANGED <<active, armed, activeTimeouts,
                                 currentLoopTask>>
  /\ UNCHANGED nextTask
  /\ EnvSame

\* lines 346-349, 397-401: terminate-session completes
LoopTerminate(t) ==
  /\ tasks[t].pc = "terminate"
  /\ \E ok \in RunOutcomes(tasks[t]) :
       IF ok
         THEN StopBody([tasks EXCEPT ![t] = Returned(@, "expired")])
         ELSE /\ tasks' = [tasks EXCEPT ![t] = Rejected(@)]
              /\ UNCHANGED <<active, armed, activeTimeouts, currentLoopTask>>
  /\ UNCHANGED nextTask
  /\ EnvSame

\* line 419: the pointer listing arrives, the keyboard listing is queried
LoopMouseIds(t) ==
  /\ tasks[t].pc = "mouseIds"
  /\ \E res \in ListingOutcomes(tasks[t]) :
       tasks' = [tasks EXCEPT ![t] =
         [Issue(@, Command(XINPUT_CMD, "list", <<>>))
            EXCEPT !.pc = "keyboardIds", !.mouseIds = getMouseIds(res),
                   !.errors = @ \o getMouseIdsLogs(res)]]
  /\ UNCHANGED <<active, armed, activeTimeouts, currentLoopTask, nextTask>>
  /\ EnvSame

\* lines 420-432: the keyboard listing arrives, the session is locked
LoopKeyboardIds(t) ==
  /\ tasks[t].pc = "keyboardIds"
  /\ \E res \in ListingOutcomes(tasks[t]) :
       tasks' = [tasks EXCEPT ![t] =
         [Issue(@, Command(LOCK_CMD, "", <<>>))
            EXCEPT !.pc = "lock1", !.keyboardIds = getKeyboardIds(res),
                   !.errors = @ \o getKeyboardIdsLogs(res)]]
  /\ UNCHANGED <<active, armed, activeTimeouts, currentLoopTask, nextTask>>
  /\ EnvSame

\* lines 432-441: the lock completes, the locked-hold sleep starts
LoopLock1(t) ==
  /\ tasks[t].pc = "lock1"
  /\ \E ok \in RunOutcomes(tasks[t]) :
       IF ok
         THEN /\ tasks' = [tasks EXCEPT ![t] =
                   Sleeping(Void(@, DpmsOff), "sleep1", @.lockIntervalMs)]
              /\ armed' = armed \cup {t}
              /\ activeTimeouts' = activeTimeouts \cup {t}
         ELSE /\ tasks' = [tasks EXCEPT ![t] = Rejected(@)]
              /\ UNCHANGED <<armed, activeTimeouts>>
  /\ UNCHANGED <<active, currentLoopTask, nextTask>>
  /\ EnvSame

\* lines 47-50, 443-451: the locked-hold timeout fires
LoopSleep1(t) ==
  /\ tasks[t].pc = "sleep1"
  /\ t \in armed
  /\ loopNow >= tasks[t].deadline
  /\ armed' = armed \ {t}
  /\ activeTimeouts' = activeTimeouts \ {t}
  /\ tasks' = [tasks EXCEPT ![t] =
       IF stoppedDuringSleep(active)
         THEN Returned(@, "stopped1")
         ELSE DevicePhase(Void(@, DpmsOff), "disableMouse", "disable",
                          @.mouseIds)]
  /\ UNCHANGED <<active, currentLoopTask, nextTask>>
  /\ EnvSame

\* lines 191-199, 451-455: one awaited `xinput disable <id>` completes
\* (resolved or rejected alike), or an empty list's call returns
LoopDisable(t) ==
  /\ tasks[t].pc \in {"disableMouse", "disableKeyboard"}
  /\ LET r == tasks[t]
         ids == IF r.pc = "disableMouse" THEN r.mouseIds ELSE r.keyboardIds
     IN  \E ok \in ToggleOutcomes(r) :
           tasks' = [tasks EXCEPT ![t] =
             IF ~IgnoreErrors(ok) THEN Rejected(r)
             ELSE IF r.idx < Len(ids)
               THEN [Issue(r, Command(XINPUT_CMD, "disable",
                                      IdToString(ids[r.idx + 1])))
                       EXCEPT !.idx = r.idx + 1]
             ELSE IF r.pc = "disableMouse"
               THEN DevicePhase(r, "disableKeyboard", "disable",
                                r.keyboardIds)
             ELSE [Issue(r, Command(LOCK_CMD, "", <<>>))
                     EXCEPT !.pc = "lock2"]]
  /\ UNCHANGED <<active, armed, activeTimeouts, currentLoopTask, nextTask>>
  /\ EnvSame

\* lines 455-456: the second lock completes, the secret is typed
LoopLock2(t) ==
  /\ tasks[t].pc = "lock2"
  /\ \E ok \in RunOutcomes(tasks[t]) :
       tasks' = [tasks EXCEPT ![t] =
         IF ok
           THEN [Issue(@, Command(XDOTOOL_CMD, "type", @.secret))
                   EXCEPT !.pc = "type"]
           ELSE Rejected(@)]
  /\ UNCHANGED <<active, armed, activeTimeouts, currentLoopTask, nextTask>>
  /\ EnvSame

\* lines 456-458: the typing completes, Return is sent
LoopType(t) ==
  /\ tasks[t].pc = "type"
  /\ \E ok \in RunOutcomes(tasks[t]) :
       tasks' = [tasks EXCEPT ![t] =
         IF ok
           THEN [Issue(Void(@, DpmsOff),
                       Command(XDOTOOL_CMD, "key", <<"Return">>))
                   EXCEPT !.pc = "key"]
           ELSE Rejected(@)]
  /\ UNCHANGED <<active, armed, activeTimeouts, currentLoopTask, nextTask>>
  /\ EnvSame

\* lines 458-467: Return completes, the unlocked-hold sleep starts
LoopKey(t) ==
  /\ tasks[t].pc = "key"
  /\ \E ok \in RunOutcomes(tasks[t]) :
       IF ok
         THEN /\ tasks' = [tasks EXCEPT ![t] =
                   Sleeping(Void(@, DpmsOff), "sleep2",
                            FromInt[UNLOCK_TIME_MS])]
              /\ armed' = armed \cup {t}
              /\ activeTimeouts' = activeTimeouts \cup {t}
         ELSE /\ tasks' = [tasks EXCEPT ![t] = Rejected(@)]
              /\ UNCHANGED <<armed, activeTimeouts>>
  /\ UNCHANGED <<active, currentLoopTask, nextTask>>
  /\ EnvSame

\* lines 47-50, 469-477: the unlocked-hold timeout fires
LoopSleep2(t) ==
  /\ tasks[t].pc = "sleep2"
  /\ t \in armed
  /\ loopNow >= tasks[t].deadline
  /\ armed' = armed \ {t}
  /\ activeTimeouts' = activeTimeouts \ {t}
  /\ tasks' = [tasks EXCEPT ![t] =
       IF stoppedDuringSleep(active)
         THEN Returned(@, "stopped2")
         ELSE DevicePhase(Void(@, DpmsOff), "enableMouse", "enable",
                          @.mouseIds)]
  /\ UNCHANGED <<active, currentLoopTask, nextTask>>
  /\ EnvSame

\* lines 201-209, 477-478: one awaited `xinput enable <id>` completes
LoopEnable(t) ==
  /\ tasks[t].pc \in {"enableMouse", "enableKeyboard"}
  /\ LET r == tasks[t]
         ids == IF r.pc = "enableMouse" THEN r.mouseIds ELSE r.keyboardIds
     IN  /\ r.pc = "enableKeyboard" => r.idx < Len(ids)
         /\ \E ok \in ToggleOutcomes(r) :
              tasks' = [tasks EXCEPT ![t] =
                IF ~IgnoreErrors(ok) THEN Rejected(r)
                ELSE IF r.idx < Len(ids)
                  THEN [Issue(r, Command(XINPUT_CMD, "enable",
                                         IdToString(ids[r.idx + 1])))
                          EXCEPT !.idx = r.idx + 1]
                ELSE DevicePhase(r, "enableKeyboard", "enable",
                                 r.keyboardIds)]
  /\ UNCHANGED <<active, armed, activeTimeouts, currentLoopTask, nextTask>>
  /\ EnvSame

\* lines 201-209, 478-487: the last enable settles (resolved or rejected
\* alike), or the empty list's call returns; the next cycle is created
LoopCycleEnd(t) ==
  /\ tasks[t].pc = "enableKeyboard"
  /\ tasks[t].idx >= Len(tasks[t].keyboardIds)
  /\ \E ok \in ToggleOutcomes(tasks[t]) : IgnoreErrors(ok)
  /\ LET done == [tasks EXCEPT ![t] = Returned(@, "completed")]
     IN  IF loopContinues(active)
           THEN /\ nextTask < limit.tasks
                /\ tasks' = LoopTaskCall(done)
                /\ nextTask' = nextTask + 1
                /\ currentLoopTask' = nextTask + 1
           ELSE /\ tasks' = done
                /\ UNCHANGED <<nextTask, currentLoopTask>>
  /\ UNCHANGED <<active, armed, activeTimeouts>>
  /\ EnvSame

(***************************************************************************)
(* start()                                                                 *)
(***************************************************************************)
LoopSame == UNCHANGED <<tasks, nextTask, armed, activeTimeouts>>

StartEnvSame == UNCHANGED <<config, now, loopNow, envOps>> /\ HostSame

\* start() returns: its promise resolves and its frame is dropped
StartReturned(r, outcome) ==
  [NoStart EXCEPT !.pc = "done", !.outcome = outcome]

WhichCommand(i) == Command("which", "", <<REQUIRED_BINARIES[i]>>)

secretMissing_OnlyUndefined(secret) == secret = Undefined

\* line 507: the start-up secret check
secretMissing(secret) == ~Truthy(secret)

startActivates_Always(isActive) == TRUE

\* line 523: start() only acts when the scheduler is not active
startActivates(isActive) == ~isActive

\* lines 495-502: the gate lets start() continue
gatePasses(missing, dryRun) == ~(missing # <<>> /\ ~dryRun)

setSecretStore_Raw(pw, old) == IF Truthy(pw) THEN pw ELSE old

\* lines 603-606: what setSecret() stores for the input pw
setSecretStore(pw, old) == IF Truthy(pw) THEN Trim(pw) ELSE old

\* lines 80-93: what checkBinaryExists can return for a probe made in
\* `mode`.  Logged, it is true.  Spawned, it is whether `which` printed a
\* path: it prints none for a binary the host lacks (and exits with 1), and
\* what it prints for one the host has may be read empty.
checkBinaryExists(binary, mode) ==
  IF mode = "log" THEN {TRUE}
  ELSE IF binary \in hostMissing THEN {FALSE}
  ELSE { out # <<>> : out \in ReadOutputs({<<binary>>}) }

\* lines 101-106: one turn of the loop of checkRequiredBinaries
MissingFrom(missing, binary, exists) ==
  IF exists THEN missing ELSE Append(missing, binary)

\* lines 495-500: start() shows the error message that names the missing
\* binaries and returns
StartRefused(r) == StartReturned(r, "missingBinaries")

\* lines 490-494, 506: start() is called and runs to its first await, the
\* first probe of the gate or the read of the secret
StartCall ==
  /\ nextStart < limit.starts
  /\ nextStart' = nextStart + 1
  /\ LET r == [NoStart EXCEPT !.dryRun = config.dryRun]
     IN  starts' = [starts EXCEPT ![nextStart + 1] =
           IF ~requiredBinariesChecked
             THEN [Issue(r, WhichCommand(1)) EXCEPT !.pc = "gate", !.probe = 1]
             ELSE AwaitingSecret(r)]
  /\ UNCHANGED <<active, currentLoopTask, requiredBinariesChecked, startTime,
                 secretStore>>
  /\ LoopSame /\ StartEnvSame

\* lines 80-112, 494-503: the probe the call awaits returns.  The next
\* binary is probed, in the mode of the dryRun setting at that moment; after
\* the last one checkRequiredBinaries() returns and start() decides with the
\* dryRun it read when it was called.
StartGate(s) ==
  /\ starts[s].pc = "gate"
  /\ LET r == starts[s]
         i == r.probe
     IN  \E exists \in checkBinaryExists(REQUIRED_BINARIES[i], LastMode(r)) :
           LET r1 == [r EXCEPT !.missing =
                        MissingFrom(@, REQUIRED_BINARIES[i], exists)]
           IN  IF i < Len(REQUIRED_BINARIES)
                 THEN /\ starts' = [starts EXCEPT ![s] =
                           [Issue(r1, WhichCommand(i + 1)) EXCEPT !.probe = i + 1]]
                      /\ UNCHANGED requiredBinariesChecked
               ELSE IF gatePasses(r1.missing, r.dryRun)
                 THEN /\ starts' = [starts EXCEPT ![s] =
                           AwaitingSecret([r1 EXCEPT !.probe = 0,
                                                     !.missing = <<>>])]
                      /\ requiredBinariesChecked' = TRUE
               ELSE /\ starts' = [starts EXCEPT ![s] = StartRefused(r1)]
                    /\ UNCHANGED requiredBinariesChecked
  /\ UNCHANGED <<active, currentLoopTask, startTime, secretStore, nextStart>>
  /\ LoopSame /\ StartEnvSame

\* lines 506-561: the secret arrives; the scheduler is marked active
StartSecret(s) ==
  /\ starts[s].pc = "getSecret"
  /\ LET r == [starts[s] EXCEPT !.answer = Undefined]
         secret == OptTrim(starts[s].answer)
         minMs == parseDuration(config.lockIntervalMin)
         maxMs == parseDuration(config.lockIntervalMax)
     IN  IF secretMissing(secret)
           THEN /\ starts' = [starts EXCEPT ![s] = [r EXCEPT !.pc = "prompt"]]
                /\ UNCHANGED <<active, startTime>>
         ELSE IF ~startActivates(active)
           THEN /\ starts' = [starts EXCEPT ![s] =
                     StartReturned(r, "alreadyActive")]
                /\ UNCHANGED <<active, startTime>>
         ELSE /\ active' = TRUE
              /\ startTime' = now
              /\ starts' = [starts EXCEPT ![s] =
                   IF validateLockIntervals(minMs, maxMs) # "valid"
                     THEN StartReturned(r, "invalidIntervals")
                     ELSE [Issue(r, Command(LOCK_CMD, "", <<>>))
                             EXCEPT !.pc = "initialLock"]]
  /\ UNCHANGED <<currentLoopTask, requiredBinariesChecked, secretStore,
                 nextStart>>
  /\ LoopSame /\ StartEnvSame

\* lines 508-520: the user answers the "Secret is not set" message
StartPrompt(s) ==
  /\ starts[s].pc = "prompt"
  /\ \E setNow \in BOOLEAN :
       starts' = [starts EXCEPT ![s] =
         IF setNow THEN [@ EXCEPT !.pc = "inputBox"]
         ELSE StartReturned(@, "noSecret")]
  /\ UNCHANGED <<active, currentLoopTask, requiredBinariesChecked, startTime,
                 secretStore, nextStart>>
  /\ LoopSame /\ StartEnvSame

\* lines 515-520, 598-606: the input box of the setSecret() inside start()
\* is answered.  With an input, secretStorage.store is called, which writes
\* the Secret Store, and start() awaits it; without one setSecret() and
\* start() return.
StartInputBox(s) ==
  /\ starts[s].pc = "inputBox"
  /\ \E pw \in SecretInputs :
       /\ secretStore' = setSecretStore(pw, secretStore)
       /\ starts' = [starts EXCEPT ![s] =
            IF Truthy(pw) THEN [@ EXCEPT !.pc = "store"]
            ELSE StartReturned(@, "noSecret")]
  /\ UNCHANGED <<active, currentLoopTask, requiredBinariesChecked, startTime,
                 nextStart>>
  /\ LoopSame /\ StartEnvSame

\* lines 516-520, 604-606: secretStorage.store settles; setSecret() and
\* then start() show their message and return
StartStored(s) ==
  /\ starts[s].pc = "store"
  /\ starts' = [starts EXCEPT ![s] = StartReturned(@, "noSecret")]
  /\ UNCHANGED <<active, currentLoopTask, requiredBinariesChecked, startTime,
                 secretStore, nextStart>>
  /\ LoopSame /\ StartEnvSame

\* lines 561-568: the initial lock completes, the loop is started
StartInitialLock(s) ==
  /\ starts[s].pc = "initialLock"
  /\ \E ok \in RunOutcomes(starts[s]) :
       IF ok
         THEN /\ nextTask < limit.tasks
              /\ tasks' = LoopTaskCall(tasks)
              /\ nextTask' = nextTask + 1
              /\ currentLoopTask' = nextTask + 1
              /\ starts' = [starts EXCEPT ![s] =
                   StartReturned(@, "started")]
         ELSE /\ starts' = [starts EXCEPT ![s] =
                   [NoStart EXCEPT !.pc = "failed", !.outcome = "lockFailed"]]
              /\ UNCHANGED <<tasks, nextTask, currentLoopTask>>
  /\ UNCHANGED <<active, requiredBinariesChecked, startTime, secretStore,
                 nextStart, armed, activeTimeouts>>
  /\ StartEnvSame

(***************************************************************************)
(* stop(), dispose(), setSecret(), clearSecret() and the environment       *)
(***************************************************************************)
\* lines 571-596
Stop ==
  /\ StopBody(tasks)
  /\ UNCHANGED nextTask
  /\ EnvSame

\* lines 615-617
Dispose ==
  /\ StopBody(tasks)
  /\ UNCHANGED nextTask
  /\ EnvSame

\* lines 598-608: setSecret() called from the command surface
SetSecret ==
  /\ envOps < limit.envOps
  /\ envOps' = envOps + 1
  /\ \E pw \in SecretInputs :
       secretStore' = setSecretStore(pw, secretStore)
  /\ UNCHANGED <<active, currentLoopTask, requiredBinariesChecked, startTime,
                 config, now, loopNow, starts, nextStart>>
  /\ LoopSame /\ HostSame

\* lines 610-613
ClearSecret ==
  /\ envOps < limit.envOps
  /\ envOps' = envOps + 1
  /\ secretStore' = Undefined
  /\ UNCHANGED <<active, currentLoopTask, requiredBinariesChecked, startTime,
                 config, now, loopNow, starts, nextStart>>
  /\ LoopSame /\ HostSame

\* the user edits the settings
ConfigChange ==
  /\ envOps < limit.envOps
  /\ envOps' = envOps + 1
  /\ \E c \in Configs \ {config} : config' = c
  /\ UNCHANGED <<active, currentLoopTask, requiredBinariesChecked, startTime,
                 secretStore, now, loopNow, starts, nextStart>>
  /\ LoopSame /\ HostSame

\* by how much time may advance in one step: TickMs, or just enough to
\* reach a pending timeout that falls due before that
TickSteps ==
  {TickMs} \cup
    { tasks[t].deadline - loopNow :
        t \in { u \in armed : /\ tasks[u].pc \in {"sleep1", "sleep2"}
                              /\ tasks[u].deadline > loopNow
                              /\ tasks[u].deadline < loopNow + TickMs } }

\* time passes
Tick ==
  /\ loopNow < limit.ticks * TickMs
  /\ \E d \in TickSteps :
       /\ loopNow' = loopNow + d
       /\ now' \in WallClock(loopNow')
  /\ UNCHANGED <<active, currentLoopTask, requiredBinariesChecked, startTime,
                 secretStore, config, starts, nextStart, envOps>>
  /\ LoopSame /\ HostSame

LoopStep(t) ==
  \/ LoopEntry(t)
  \/ LoopSessions(t)
  \/ LoopTerminate(t)
  \/ LoopMouseIds(t)
  \/ LoopKeyboardIds(t)
  \/ LoopLock1(t)
  \/ LoopSleep1(t)
  \/ LoopDisable(t)
  \/ LoopLock2(t)
  \/ LoopType(t)
  \/ LoopKey(t)
  \/ LoopSleep2(t)
  \/ LoopEnable(t)
  \/ LoopCycleEnd(t)

StartCore(s) ==
  \/ StartGate(s)
  \/ StartSecret(s)
  \/ StartInitialLock(s)

StartAsk(s) ==
  \/ StartPrompt(s)
  \/ StartInputBox(s)
  \/ StartStored(s)

Next ==
  \/ StartCall
  \/ \E s \in StartIds : StartCore(s)
  \/ \E t \in TaskIds : LoopStep(t)
  \/ Stop
  \/ Dispose
  \/ Tick

Spec == Init /\ [][Next]_vars

\* The run with the Secret Store changing under it: setSecret() and
\* clearSecret() interleave with start(), stop() and the loop, in dry-run
\* or with real commands.
InitSecret ==
  /\ Constructed(Limit(FewStarts, MaxTasks, MaxTicks, MaxEnvOps))
  /\ secretStore \in StoredSecrets
  /\ config \in {RealCfg, DryCfg}
  /\ hostMissing = {}
  /\ hostFaults = {}
  /\ hostUnresponsive = {}
  /\ hostListings = {MockListing}
  /\ hostSessions = {MockSessions}

NextSecret ==
  \/ StartCall
  \/ \E s \in StartIds : StartCore(s)
  \/ \E s \in StartIds : StartAsk(s)
  \/ \E t \in TaskIds : LoopStep(t)
  \/ Stop
  \/ SetSecret
  \/ ClearSecret
  \/ Tick

SpecSecret == InitSecret /\ [][NextSecret]_vars

\* Start-up on any host: binaries missing or not, any stored secret, valid
\* settings, dry-run or not, or intervals above the limit, and the settings
\* (to any of Configs) and the secret changing between and during start()
\* calls.  start() is called again once the call before has returned or
\* while it waits for the Secret Store to take the secret entered (other
\* overlapping calls are explored under Spec and SpecOverlap).  No time
\* passes: a started cycle gets as far as its locked-hold sleep.
InitStartup ==
  /\ Constructed(Limit(MaxStarts, MaxTasks, 0, MaxEnvOps))
  /\ now = loopNow
  /\ secretStore \in StoredSecrets
  /\ config \in {RealCfg, DryCfg, Cfg(FALSE, S_1s, S_31m, S_31m)}
  /\ hostMissing \in MissingOptions
  /\ hostFaults = {}
  /\ hostUnresponsive = {}
  /\ hostListings = {MockListing}
  /\ hostSessions = {MockSessions}

LoopUntilSleep(t) ==
  \/ LoopEntry(t)
  \/ LoopSessions(t)
  \/ LoopTerminate(t)
  \/ LoopMouseIds(t)
  \/ LoopKeyboardIds(t)
  \/ LoopLock1(t)

NextStartup ==
  \/ /\ \A s \in StartIds : starts[s].pc \in {"none", "done", "failed", "store"}
     /\ StartCall
  \/ \E s \in StartIds : StartCore(s)
  \/ \E s \in StartIds : StartAsk(s)
  \/ \E t \in TaskIds : LoopUntilSleep(t)
  \/ Stop
  \/ SetSecret
  \/ ClearSecret
  \/ ConfigChange

SpecStartup == InitStartup /\ [][NextStartup]_vars

\* Running out the configured duration: the duration is zero or one
\* second, the session manager may fail to spawn, and its session list may
\* be the usual one, empty, or blank before its first session.
InitExpiry ==
  /\ Constructed(Limit(FewStarts, MaxTasks, MaxTicks, 0))
  /\ secretStore = <<"p">>
  /\ config \in {RealCfg, Cfg(FALSE, S_0s, S_half, S_1s),
                  Cfg(TRUE, S_0s, S_half, S_half)}
  /\ hostMissing = {}
  /\ hostFaults = {LOGINCTL_CMD}
  /\ hostUnresponsive = {}
  /\ hostListings = {MockListing}
  /\ hostSessions \in { {l} : l \in SessionOutputs }

NextExpiry ==
  \/ StartCall
  \/ \E s \in StartIds : StartCore(s)
  \/ \E t \in TaskIds : LoopStep(t)
  \/ Stop
  \/ Tick

SpecExpiry == InitExpiry /\ [][NextExpiry]_vars

\* An undisturbed run: every binary is installed, no command fails, the
\* secret stays stored, the settings pass validation and stop() is never
\* called.  The duration is one second, zero, or the string ".s".
InitLive ==
  /\ Constructed(Limit(FewStarts, FewStarts, MaxTicks, 0))
  /\ secretStore = <<"p">>
  /\ config \in {RealCfg, DryCfg, Cfg(FALSE, S_0s, S_half, S_1s),
                 Cfg(FALSE, S_dot, S_half, S_half)}
  /\ hostMissing = {}
  /\ hostFaults = {}
  /\ hostUnresponsive = {}
  /\ hostListings = {MockListing}
  /\ hostSessions = SessionOutputs

\* time passes without end: once the loop time has reached the last
\* reading the model distinguishes, the origin of the clocks moves on
\* instead, so the start timestamp and the deadlines of the pending
\* timeouts move back
TickOn ==
  \/ Tick
  \/ /\ loopNow >= limit.ticks * TickMs
     /\ \E d \in TickSteps :
          /\ startTime' = IF startTime >= d THEN startTime - d ELSE 0
          /\ tasks' = [t \in TaskIds |->
               IF tasks[t].pc \in {"sleep1", "sleep2"}
                 THEN [tasks[t] EXCEPT !.deadline =
                         IF @ >= d THEN @ - d ELSE 0]
                 ELSE tasks[t]]
     /\ now' \in WallClock(loopNow)
     /\ UNCHANGED <<active, currentLoopTask, requiredBinariesChecked,
                    secretStore, config, loopNow, starts, nextStart, envOps,
                    nextTask, armed, activeTimeouts>>
     /\ HostSame

\* lines 478-487 in a run of any length: the call that returns is dropped
\* and the call it made for the next cycle takes its place
LoopCycleEndOver(t) ==
  /\ tasks[t].pc = "enableKeyboard"
  /\ tasks[t].idx >= Len(tasks[t].keyboardIds)
  /\ \E ok \in ToggleOutcomes(tasks[t]) : IgnoreErrors(ok)
  /\ IF loopContinues(active)
       THEN /\ tasks' = [tasks EXCEPT ![t] = AwaitingSecret(NoTask)]
            /\ currentLoopTask' = t
       ELSE /\ tasks' = [tasks EXCEPT ![t] = Returned(@, "completed")]
            /\ UNCHANGED currentLoopTask
  /\ UNCHANGED <<active, armed, activeTimeouts, nextTask>>
  /\ EnvSame

LiveLoopStep(t) ==
  \/ LoopEntry(t)
  \/ LoopSessions(t)
  \/ LoopTerminate(t)
  \/ LoopMouseIds(t)
  \/ LoopKeyboardIds(t)
  \/ LoopLock1(t)
  \/ LoopSleep1(t)
  \/ LoopDisable(t)
  \/ LoopLock2(t)
  \/ LoopType(t)
  \/ LoopKey(t)
  \/ LoopSleep2(t)
  \/ LoopEnable(t)
  \/ LoopCycleEndOver(t)

\* a pending start() or loopTask call takes its next step
Progress ==
  \/ \E s \in StartIds : StartCore(s)
  \/ \E t \in TaskIds : LiveLoopStep(t)

NextLive ==
  \/ StartCall
  \/ Progress
  \/ TickOn

\* awaited commands and lookups complete, timeouts fire once due, and time
\* advances; nothing obliges the user to call start()
FairLive == WF_vars(TickOn) /\ WF_vars(Progress)

SpecLive == InitLive /\ [][NextLive]_vars /\ FairLive

\* Cycles on hosts whose device listing varies (the usual one, an empty
\* one, one with two mice and a keyboard line without id) or fails, with
\* one start() call and stop() at any point.
InitOrder ==
  /\ Constructed(Limit(FewStarts, MaxTasks, MaxTicks, 0))
  /\ secretStore = <<"p">>
  /\ config \in {RealCfg, DryCfg}
  /\ hostMissing = {}
  /\ hostFaults = {XINPUT_CMD}
  /\ hostUnresponsive = {}
  /\ hostListings = Listings
  /\ hostSessions = {MockSessions}

NextOrder ==
  \/ StartCall
  \/ \E s \in StartIds : StartCore(s)
  \/ \E t \in TaskIds : LoopStep(t)
  \/ Stop
  \/ Tick

SpecOrder == InitOrder /\ [][NextOrder]_vars

\* Cycles on the same hosts where no spawn fails and a device, mouse 7 or
\* keyboard 10, stops responding at some point, before a cycle or in the
\* middle of one: from then on the child of an `xinput disable` or
\* `xinput enable` of that device never exits.
InitToggle ==
  /\ Constructed(Limit(FewStarts, MaxTasks, MaxTicks, 0))
  /\ secretStore = <<"p">>
  /\ config \in {RealCfg, DryCfg}
  /\ hostMissing = {}
  /\ hostFaults = {}
  /\ hostUnresponsive = {}
  /\ hostListings = Listings
  /\ hostSessions = {MockSessions}

StallingDevices == {7, 10}

\* lines 126-131: a device stops responding; no 'exit' and no 'error' event
\* comes from the child of a toggle of it any more
DeviceStalls ==
  /\ \E id \in StallingDevices \ hostUnresponsive :
       hostUnresponsive' = hostUnresponsive \cup {id}
  /\ UNCHANGED <<active, currentLoopTask, requiredBinariesChecked,
                 activeTimeouts, startTime, armed, secretStore, config,
                 hostMissing, hostFaults, hostListings, hostSessions, now,
                 loopNow, tasks, nextTask, starts, nextStart, envOps, limit>>

NextToggle ==
  \/ StartCall
  \/ \E s \in StartIds : StartCore(s)
  \/ \E t \in TaskIds : LoopStep(t)
  \/ Stop
  \/ Tick
  \/ DeviceStalls

SpecToggle == InitToggle /\ [][NextToggle]_vars

\* Dry-run and real runs on a host where xdotool is not installed, every
\* program may fail to spawn and the device and session listings vary; the
\* duration is one second or zero.
InitDry ==
  /\ Constructed(Limit(FewStarts, MaxTasks, MaxTicks, 0))
  /\ secretStore = <<"p">>
  /\ config \in {DryCfg, Cfg(TRUE, S_0s, S_half, S_half), RealCfg}
  /\ hostMissing \in {{}, {XDOTOOL_CMD}}
  /\ hostFaults = {LOCK_CMD, XDOTOOL_CMD, XSET_CMD, XINPUT_CMD, LOGINCTL_CMD}
  /\ hostUnresponsive = {}
  /\ hostListings = Listings
  /\ hostSessions = SessionOutputs

NextDry ==
  \/ StartCall
  \/ \E s \in StartIds : StartCore(s)
  \/ \E t \in TaskIds : LoopStep(t)
  \/ Stop
  \/ Tick

SpecDry == InitDry /\ [][NextDry]_vars

\* The same host seen by a dry run and by a real run: every binary is
\* installed, no command fails and the device and session listings are the
\* ones dry-run substitutes.  The duration is one second or zero.
InitSame ==
  /\ Constructed(Limit(FewStarts, MaxTasks, MaxTicks, 0))
  /\ secretStore \in {<<"p">>, <<"q">>}
  /\ config \in {RealCfg, DryCfg, Cfg(FALSE, S_0s, S_half, S_half),
                 Cfg(TRUE, S_0s, S_half, S_half)}
  /\ hostMissing = {}
  /\ hostFaults = {}
  /\ hostUnresponsive = {}
  /\ hostListings = {MockListing}
  /\ hostSessions = {MockSessions}

NextSame ==
  \/ StartCall
  \/ \E s \in StartIds : StartCore(s)
  \/ \E t \in TaskIds : LoopStep(t)
  \/ Stop
  \/ Tick

SpecSame == InitSame /\ [][NextSame]_vars

\* Interval settings of every shape: each string of at most MaxLen
\* characters made of digits, dots, unit letters in both cases, a blank and
\* a foreign letter, read by start() and by the first cycle.
DurationChars == {"1", "5", ".", "h", "M", "s", " ", "\t", "x"}

\* the strings the duration tests list as invalid
InvalidSamples ==
  { <<"i", "n", "v", "a", "l", "i", "d">>, <<"1", "0">>, <<"1", "0", "x">>,
    <<"h", "1", "0">>, <<"1", "0", ".", "5", ".", "5", "m">>, <<>>,
    <<" ", " ">>, <<".">> }

\* durations wrapped in white space other than blanks, and one with white
\* space inside
WrappedSamples ==
  { <<"\t", "1", "s">>, <<"1", "s", "\n">>, <<"\r", "\n", "1", "s", "\f">>,
    <<"", "1", "s">>, <<" ", "1", "s", " ">>,
    <<"U+FEFF", "1", "s", "U+3000">>, <<"U+2003", "1", "s", "U+2029">>,
    <<"U+1680", "1", "U+202F", "s">> }

S_8_3m == <<"8", ".", "3", "m">>
S_498s == <<"4", "9", "8", "s">>

\* durations whose number is no binary fraction, or whose product is none
FractionSamples ==
  { S_8_3m, <<"4", ".", "1", "m">>, <<"0", ".", "0", "3", "m">>,
    <<"0", ".", "0", "0", "0", "5", "s">>, <<"1", ".", "1", "h">>,
    <<"0", ".", "1", "s">> }

DurationInputs ==
  UNION { [1..n -> DurationChars] : n \in 0..MaxLen }
    \cup InvalidSamples \cup WrappedSamples \cup FractionSamples

InitParse ==
  /\ Constructed(Limit(FewStarts, FewStarts, 0, 0))
  /\ secretStore = <<"p">>
  /\ config \in { Cfg(TRUE, S_1s, d, d) : d \in DurationInputs }
  /\ hostMissing = {}
  /\ hostFaults = {}
  /\ hostUnresponsive = {}
  /\ hostListings = {MockListing}
  /\ hostSessions = {MockSessions}

NextParse ==
  \/ StartCall
  \/ \E s \in StartIds : StartCore(s)
  \/ \E t \in TaskIds : LoopEntry(t)

SpecParse == InitParse /\ [][NextParse]_vars

\* Every pairing of interval settings around the limits: zero, one minute,
\* 8.3 minutes and the 498 seconds they are, a quarter of an hour, thirty
\* minutes exactly, thirty-one minutes, one hour, a text that is no duration
\* and a text without digits.
IntervalSamples ==
  { S_0s, <<"1", "m">>, S_8_3m, S_498s, <<"1", "5", "m">>, <<".", "5", "h">>,
    S_31m, <<"1", "h">>, S_bad, S_dot }

InitValidate ==
  /\ Constructed(Limit(FewStarts, FewStarts, 0, 0))
  /\ secretStore = <<"p">>
  /\ config \in { Cfg(TRUE, S_1s, lo, hi) :
                    lo \in IntervalSamples, hi \in IntervalSamples }
  /\ hostMissing = {}
  /\ hostFaults = {}
  /\ hostUnresponsive = {}
  /\ hostListings = {MockListing}
  /\ hostSessions = {MockSessions}

NextValidate ==
  \/ StartCall
  \/ \E s \in StartIds : StartCore(s)
  \/ \E t \in TaskIds : LoopEntry(t)

SpecValidate == InitValidate /\ [][NextValidate]_vars

\* Real runs on the usual host where `xinput` may fail to spawn, be it to
\* list the devices or to toggle one.
InitListing ==
  /\ Constructed(Limit(FewStarts, MaxTasks, MaxTicks, 0))
  /\ secretStore = <<"p">>
  /\ config = RealCfg
  /\ hostMissing = {}
  /\ hostFaults = {XINPUT_CMD}
  /\ hostUnresponsive = {}
  /\ hostListings = {MockListing}
  /\ hostSessions = {MockSessions}

NextListing ==
  \/ StartCall
  \/ \E s \in StartIds : StartCore(s)
  \/ \E t \in TaskIds : LoopStep(t)
  \/ Stop
  \/ Tick

SpecListing == InitListing /\ [][NextListing]_vars

\* the markers a line may carry: none, those of a pointer, or some of those
\* of a keyboard
MarkerSamples ==
  { {}, {"slave  pointer"}, {"slave  keyboard"}, {"wired keyboard"},
    {"slave  keyboard", "wired keyboard"} }

\* Real runs up to the device queries, on hosts whose listing has up to
\* MaxLines lines: each line with the markers of one kind of device, with
\* `mouse` in no, lower, capitalised or upper case, and with no id, id=7
\* or id=12.
LineSamples ==
  { Line(ws \cup m, id) :
      ws \in MarkerSamples,
      m \in {{}, {"mouse"}, {"Mouse"}, {"MOUSE"}},
      id \in {<<>>, <<"7">>, <<"1", "2">>} }

ListingSamples == UNION { [1..n -> LineSamples] : n \in 1..MaxLines }

InitClassify ==
  /\ Constructed(Limit(FewStarts, FewStarts, 0, 0))
  /\ secretStore = <<"p">>
  /\ config = RealCfg
  /\ hostMissing = {}
  /\ hostFaults = {}
  /\ hostUnresponsive = {}
  /\ hostListings \in { {l} : l \in ListingSamples }
  /\ hostSessions = {MockSessions}

NextClassify ==
  \/ StartCall
  \/ \E s \in StartIds : StartCore(s)
  \/ \E t \in TaskIds : LoopEntry(t)
  \/ \E t \in TaskIds : LoopMouseIds(t)
  \/ \E t \in TaskIds : LoopKeyboardIds(t)

SpecClassify == InitClassify /\ [][NextClassify]_vars

\* start() called several times with nothing to end the run: no stop(),
\* no command failing, and a duration of one hour that does not run out.
InitOverlap ==
  /\ Constructed(Limit(MaxStarts, MaxTasks, MaxTicks, 0))
  /\ secretStore = <<"p">>
  /\ config \in { Cfg(dry, <<"1", "h">>, S_half, S_half) : dry \in BOOLEAN }
  /\ hostMissing = {}
  /\ hostFaults = {}
  /\ hostUnresponsive = {}
  /\ hostListings = {MockListing}
  /\ hostSessions = {MockSessions}

NextOverlap ==
  \/ StartCall
  \/ \E s \in StartIds : StartCore(s)
  \/ \E t \in TaskIds : LoopStep(t)
  \/ Tick

SpecOverlap == InitOverlap /\ [][NextOverlap]_vars

\* A run whose settings are edited while it is under way.
InitReconfig ==
  /\ Constructed(Limit(FewStarts, MaxTasks, MaxTicks, MaxEnvOps))
  /\ secretStore = <<"p">>
  /\ config = RealCfg
  /\ hostMissing = {}
  /\ hostFaults = {}
  /\ hostUnresponsive = {}
  /\ hostListings = {MockListing}
  /\ hostSessions = {MockSessions}

NextReconfig ==
  \/ StartCall
  \/ \E s \in StartIds : StartCore(s)
  \/ \E t \in TaskIds : LoopStep(t)
  \/ ConfigChange
  \/ Tick

SpecReconfig == InitReconfig /\ [][NextReconfig]_vars

(***************************************************************************)
(* The cycle-count variant of the service (src/extension.ts): loopTask     *)
(* takes the number of cycles left, the holds are the napTimeS and         *)
(* weakTimeS settings, and there is no duration and no interval check.     *)
(* Its device queries, lock, device toggling, typing and sleeps are the    *)
(* statements of the duration variant, and the same actions model them.    *)
(***************************************************************************)
COUNT_REQUIRED_BINARIES == <<"ft_lock", "xdotool", "xset", "xinput">>

\* the number of cycles left is an integer n or, with inf set, Infinity
Finite(n) == [inf |-> FALSE, n |-> n]
Infinity == [inf |-> TRUE, n |-> 0]

\* the setting 0.5
Half == DoubleOf[[nan |-> FALSE, digits |-> <<"0", "5">>, scale |-> 1]]

CountCfg(dry, nap, weak, n) ==
  [dryRun |-> dry, napTimeS |-> nap, weakTimeS |-> weak, stopAfterCycles |-> n]

\* extension.ts line 496: `stopAfterCycles || Infinity`, the argument of
\* the first loopTask call
firstCyclesLeft(stopAfterCycles) ==
  IF stopAfterCycles = 0 THEN Infinity ELSE Finite(stopAfterCycles)

\* extension.ts line 347: cyclesLeft <= 0
cyclesExhausted(cyclesLeft) == ~cyclesLeft.inf /\ cyclesLeft.n <= 0

nextCyclesLeft_Keep(cyclesLeft, stopAfterCycles) == cyclesLeft

\* extension.ts lines 432-436: the argument of the next loopTask call;
\* Infinity - 1 is Infinity
nextCyclesLeft(cyclesLeft, stopAfterCycles) ==
  IF stopAfterCycles > 0 /\ ~cyclesLeft.inf THEN Finite(cyclesLeft.n - 1)
  ELSE cyclesLeft

NoCountStart ==
  [pc |-> "none", answer |-> Undefined, dryRun |-> FALSE, probe |-> 0,
   missing |-> <<>>, cmds |-> <<>>, outcome |-> "none", stopAfterCycles |-> 0]

\* loopTask(cyclesLeft) is called: it runs up to the await of
\* secretStorage.get (extension.ts line 344)
CountLoopTaskCall(tk, cyclesLeft) ==
  [tk EXCEPT ![nextTask + 1] =
     AwaitingSecret(
       [pc |-> "none", answer |-> Undefined, secret |-> Undefined,
        dryRun |-> FALSE, lockIntervalMs |-> Zero, minMs |-> Zero,
        maxMs |-> Zero, mouseIds |-> <<>>, keyboardIds |-> <<>>, idx |-> 0,
        cmds |-> <<>>, errors |-> <<>>, deadline |-> 0, exit |-> "none",
        cancelled |-> "no", cyclesLeft |-> cyclesLeft, stopAfterCycles |-> 0, weakMs |-> Zero])]

CountWhichCommand(i) == Command("which", "", <<COUNT_REQUIRED_BINARIES[i]>>)

\* extension.ts lines 440-445, 457: start() is called
CountStartCall ==
  /\ nextStart < limit.starts
  /\ nextStart' = nextStart + 1
  /\ LET r == [NoCountStart EXCEPT !.dryRun = config.dryRun]
     IN  starts' = [starts EXCEPT ![nextStart + 1] =
           IF ~requiredBinariesChecked
             THEN [Issue(r, CountWhichCommand(1))
                     EXCEPT !.pc = "gate", !.probe = 1]
             ELSE AwaitingSecret(r)]
  /\ UNCHANGED <<active, currentLoopTask, requiredBinariesChecked, startTime,
                 secretStore>>
  /\ LoopSame /\ StartEnvSame

\* extension.ts lines 169-201, 444-454: the probe the call awaits returns;
\* the next binary is probed, or checkRequiredBinaries() returns
CountStartGate(s) ==
  /\ starts[s].pc = "gate"
  /\ LET r == starts[s]
         i == r.probe
     IN  \E exists \in
              checkBinaryExists(COUNT_REQUIRED_BINARIES[i], LastMode(r)) :
           LET r1 == [r EXCEPT !.missing =
                        MissingFrom(@, COUNT_REQUIRED_BINARIES[i], exists)]
           IN  IF i < Len(COUNT_REQUIRED_BINARIES)
                 THEN /\ starts' = [starts EXCEPT ![s] =
                           [Issue(r1, CountWhichCommand(i + 1))
                              EXCEPT !.probe = i + 1]]
                      /\ UNCHANGED requiredBinariesChecked
               ELSE IF gatePasses(r1.missing, r.dryRun)
                 THEN /\ starts' = [starts EXCEPT ![s] =
                           AwaitingSecret([r1 EXCEPT !.probe = 0,
                                                     !.missing = <<>>])]
                      /\ requiredBinariesChecked' = TRUE
               ELSE /\ starts' = [starts EXCEPT ![s] = StartRefused(r1)]
                    /\ UNCHANGED requiredBinariesChecked
  /\ UNCHANGED <<active, currentLoopTask, startTime, secretStore, nextStart>>
  /\ LoopSame /\ StartEnvSame

\* extension.ts lines 457-493: the secret arrives; the scheduler is marked
\* active and the initial lock is issued
CountStartSecret(s) ==
  /\ starts[s].pc = "getSecret"
  /\ LET r == [starts[s] EXCEPT !.answer = Undefined]
         secret == OptTrim(starts[s].answer)
     IN  IF secretMissing(secret)
           THEN /\ starts' = [starts EXCEPT ![s] = [r EXCEPT !.pc = "prompt"]]
                /\ UNCHANGED active
         ELSE IF ~startActivates(active)
           THEN /\ starts' = [starts EXCEPT ![s] =
                     StartReturned(r, "alreadyActive")]
                /\ UNCHANGED active
         ELSE /\ active' = TRUE
              /\ starts' = [starts EXCEPT ![s] =
                   [Issue(r, Command(LOCK_CMD, "", <<>>))
                      EXCEPT !.pc = "initialLock",
                             !.stopAfterCycles = config.stopAfterCycles]]
  /\ UNCHANGED <<currentLoopTask, requiredBinariesChecked, startTime,
                 secretStore, nextStart>>
  /\ LoopSame /\ StartEnvSame

\* start() returns having started the loop: its frame is dropped, the
\* stopAfterCycles it read (extension.ts line 478) is kept for reference
CountStarted(r) ==
  [NoCountStart EXCEPT !.pc = "done", !.outcome = "started",
                       !.stopAfterCycles = r.stopAfterCycles]

\* extension.ts lines 493-502: the initial lock completes, the loop starts
CountStartInitialLock(s) ==
  /\ starts[s].pc = "initialLock"
  /\ \E ok \in RunOutcomes(starts[s]) :
       IF ok
         THEN /\ nextTask < limit.tasks
              /\ tasks' = CountLoopTaskCall(tasks,
                             firstCyclesLeft(starts[s].stopAfterCycles))
              /\ nextTask' = nextTask + 1
              /\ currentLoopTask' = nextTask + 1
              /\ starts' = [starts EXCEPT ![s] = CountStarted(@)]
         ELSE /\ starts' = [starts EXCEPT ![s] =
                   [NoStart EXCEPT !.pc = "failed", !.outcome = "lockFailed"]]
              /\ UNCHANGED <<tasks, nextTask, currentLoopTask>>
  /\ UNCHANGED <<active, requiredBinariesChecked, startTime, secretStore,
                 nextStart, armed, activeTimeouts>>
  /\ StartEnvSame

\* extension.ts lines 344-376: from the resolved secret to the final lock,
\* the return, or the first device query
CountLoopEntry(t) ==
  /\ tasks[t].pc = "getSecret"
  /\ LET secret == OptTrim(tasks[t].answer)
         r0 == [tasks[t] EXCEPT !.secret = secret, !.answer = Undefined]
         r1 == [r0 EXCEPT !.dryRun = config.dryRun,
                          !.lockIntervalMs = Times[config.napTimeS, 1000],
                          !.weakMs = Times[config.weakTimeS, 1000],
                          !.stopAfterCycles = config.stopAfterCycles]
     IN  tasks' = [tasks EXCEPT ![t] =
           IF loopAborts(secret, active) \/ cyclesExhausted(r0.cyclesLeft)
             THEN IF cyclesExhausted(r0.cyclesLeft)
                    THEN [Issue(r0, Command(LOCK_CMD, "", <<>>))
                            EXCEPT !.pc = "finalLock"]
                    ELSE Returned(r0, "abort")
             ELSE [Issue(r1, Command(XINPUT_CMD, "list", <<>>))
                     EXCEPT !.pc = "mouseIds"]]
  /\ UNCHANGED <<active, armed, activeTimeouts, currentLoopTask, nextTask>>
  /\ EnvSame

\* extension.ts lines 348-352: the final lock completes, stop() is called
CountFinalLock(t) ==
  /\ tasks[t].pc = "finalLock"
  /\ \E ok \in RunOutcomes(tasks[t]) :
       IF ok
         THEN StopBody([tasks EXCEPT ![t] = Returned(@, "final")])
         ELSE /\ tasks' = [tasks EXCEPT ![t] = Rejected(@)]
              /\ UNCHANGED <<active, armed, activeTimeouts, currentLoopTask>>
  /\ UNCHANGED nextTask
  /\ EnvSame

\* extension.ts lines 408-416: Return completes, the unlocked-hold sleep of
\* weakTimeS seconds starts
CountLoopKey(t) ==
  /\ tasks[t].pc = "key"
  /\ \E ok \in RunOutcomes(tasks[t]) :
       IF ok
         THEN /\ tasks' = [tasks EXCEPT ![t] =
                   Sleeping(Void(@, DpmsOff), "sleep2", @.weakMs)]
              /\ armed' = armed \cup {t}
              /\ activeTimeouts' = activeTimeouts \cup {t}
         ELSE /\ tasks' = [tasks EXCEPT ![t] = Rejected(@)]
              /\ UNCHANGED <<armed, activeTimeouts>>
  /\ UNCHANGED <<active, currentLoopTask, nextTask>>
  /\ EnvSame

\* extension.ts lines 424-438: the last enable settles; the next cycle is
\* created with the cycles left counted down
CountLoopCycleEnd(t) ==
  /\ tasks[t].pc = "enableKeyboard"
  /\ tasks[t].idx >= Len(tasks[t].keyboardIds)
  /\ \E ok \in ToggleOutcomes(tasks[t]) : IgnoreErrors(ok)
  /\ LET r == tasks[t]
         done == [tasks EXCEPT ![t] = Returned(r, "completed")]
     IN  IF loopContinues(active)
           THEN /\ nextTask < limit.tasks
                /\ tasks' = CountLoopTaskCall(done,
                               nextCyclesLeft(r.cyclesLeft, r.stopAfterCycles))
                /\ nextTask' = nextTask + 1
                /\ currentLoopTask' = nextTask + 1
           ELSE /\ tasks' = done
                /\ UNCHANGED <<nextTask, currentLoopTask>>
  /\ UNCHANGED <<active, armed, activeTimeouts>>
  /\ EnvSame

CountLoopStep(t) ==
  \/ CountLoopEntry(t)
  \/ CountFinalLock(t)
  \/ LoopMouseIds(t)
  \/ LoopKeyboardIds(t)
  \/ LoopLock1(t)
  \/ LoopSleep1(t)
  \/ LoopDisable(t)
  \/ LoopLock2(t)
  \/ LoopType(t)
  \/ CountLoopKey(t)
  \/ LoopSleep2(t)
  \/ LoopEnable(t)
  \/ CountLoopCycleEnd(t)

\* extension.ts lines 440-502; the prompt, the input box and the store of
\* lines 458-471 and 532-541 are the statements of the duration variant
CountStartStep(s) ==
  \/ CountStartGate(s)
  \/ CountStartSecret(s)
  \/ StartPrompt(s)
  \/ StartInputBox(s)
  \/ StartStored(s)
  \/ CountStartInitialLock(s)

\* One undisturbed run of the cycle-count variant: a stored secret, every
\* binary installed, no command failing, stopAfterCycles fixed, no stop().
InitCount ==
  /\ Constructed(Limit(1, MaxCycles + 1, MaxTicks, 0))
  /\ secretStore = <<"p">>
  /\ config \in {CountCfg(dry, Half, Half, n) :
                    dry \in BOOLEAN, n \in 1..MaxCycles}
  /\ hostMissing = {}
  /\ hostFaults = {}
  /\ hostUnresponsive = {}
  /\ hostListings = {MockListing}
  /\ hostSessions = {MockSessions}

CountProgress ==
  \/ \E s \in StartIds : CountStartStep(s)
  \/ \E t \in TaskIds : CountLoopStep(t)

NextCount ==
  \/ CountStartCall
  \/ CountProgress
  \/ TickOn

SpecCount ==
  InitCount /\ [][NextCount]_vars /\ WF_vars(TickOn) /\ WF_vars(CountProgress)

\* the user edits stopAfterCycles
CountConfigChange ==
  /\ envOps < limit.envOps
  /\ envOps' = envOps + 1
  /\ \E n \in ((0 - 1)..MaxCycles) \ {config.stopAfterCycles} :
       config' = [config EXCEPT !.stopAfterCycles = n]
  /\ UNCHANGED <<active, currentLoopTask, requiredBinariesChecked, startTime,
                 secretStore, now, loopNow, starts, nextStart>>
  /\ LoopSame /\ HostSame

\* A run of the cycle-count variant during which stopAfterCycles is edited,
\* with a secret stored or none.
InitCountEdit ==
  /\ Constructed(Limit(1, MaxCycles + 1, MaxTicks, MaxEnvOps))
  /\ secretStore \in {<<"p">>, Undefined}
  /\ config \in {CountCfg(dry, Half, Half, n) :
                    dry \in BOOLEAN, n \in 1..MaxCycles}
  /\ hostMissing = {}
  /\ hostFaults = {}
  /\ hostUnresponsive = {}
  /\ hostListings = {MockListing}
  /\ hostSessions = {MockSessions}

NextCountEdit ==
  \/ CountStartCall
  \/ CountProgress
  \/ TickOn
  \/ CountConfigChange

SpecCountEdit == InitCountEdit /\ [][NextCountEdit]_vars

(***************************************************************************)
(* Properties                                                              *)
(***************************************************************************)
\* a loopTask call that has neither returned nor rejected
Live(t) == tasks[t].pc \notin {"none", "done", "failed"}

Asleep(t) == tasks[t].pc \in {"sleep1", "sleep2"}

\* a live cycle that can still take a step: it awaits a command, or a
\* timeout the runtime will fire
InProgress(t) == Live(t) /\ (Asleep(t) => t \in armed)

HasCmd(r, cmd, sub) == \E i \in 1..Len(r.cmds) :
  r.cmds[i].cmd = cmd /\ r.cmds[i].sub = sub

\* start() call s took a step
StartMoved(s) == starts'[s] # starts[s]

\* C1: under every interleaving of start(), stop() and the loop's steps at
\* most one cycle is in progress at any time (stated as the claim has it;
\* the code violates it).
C1_AtMostOneCycle ==
  \A t1, t2 \in TaskIds : InProgress(t1) /\ InProgress(t2) => t1 = t2

\* C2: a cycle that has issued `xdotool type` or `xdotool key Return` read,
\* at its entry, a secret that is non-empty after trimming, and it is that
\* secret it types.
C2_ReplayOnlyWithSecret ==
  \A t \in TaskIds :
    \A i \in 1..Len(tasks[t].cmds) :
      tasks[t].cmds[i].cmd = XDOTOOL_CMD =>
        /\ Truthy(tasks[t].secret)
        /\ tasks[t].secret = Trim(tasks[t].secret)
        /\ tasks[t].cmds[i].sub = "type" =>
             tasks[t].cmds[i].arg = tasks[t].secret

\* C2 witness: a cycle has sent Return after typing its secret while the
\* Secret Store no longer holds one.
C2_Witness ==
  \E t \in TaskIds :
    /\ HasCmd(tasks[t], XDOTOOL_CMD, "key")
    /\ ~Truthy(secretStore)

\* C3: once stop() has cancelled a cycle's locked-hold sleep, the cycle never
\* takes a later step (it is still at the sleep in every later state), and
\* the step that cancels it leaves activeTimeouts empty.
C3_StopInLockedHold ==
  /\ [](\A t \in TaskIds :
         tasks[t].cancelled = "sleep1" =>
           tasks[t].pc = "sleep1" /\ ~HasCmd(tasks[t], XINPUT_CMD, "disable")
             /\ ~HasCmd(tasks[t], XDOTOOL_CMD, "type"))
  /\ [][(\E t \in TaskIds :
           tasks[t].cancelled = "no" /\ tasks'[t].cancelled = "sleep1")
           => activeTimeouts' = {}]_vars

\* C3 witness: a cycle cancelled in the locked hold, the scheduler started
\* again and a later cycle already past its own locked hold.
C3_Witness ==
  \E t, u \in TaskIds :
    /\ tasks[t].cancelled = "sleep1"
    /\ active
    /\ tasks[u].pc = "lock2"

\* C4: when stop() cancels a pending sleep the suspended wait resolves, so
\* no cycle is ever left suspended on a timeout that will not fire (stated
\* as the claim has it; the code violates it).
C4_CancelledSleepResolves ==
  \A t \in TaskIds : Asleep(t) => t \in armed

InFlight(s) == starts[s].pc \notin {"none", "done", "failed"}

\* C5: a start() call that returns because the lock intervals fail
\* validation leaves active false (stated as the claim has it; the code
\* violates it).
C5_InvalidIntervalsLeaveInactive ==
  [][\A s \in StartIds :
       (StartMoved(s) /\ starts'[s].outcome = "invalidIntervals")
         => ~active']_vars

\* C6: while a required binary is missing and dry-run is off, no start()
\* call made with dry-run off gets past the binary gate (stated as the claim
\* has it; the code violates it).
C6_MissingBinariesAbort ==
  \A s \in StartIds :
    (InFlight(s) /\ ~starts[s].dryRun /\ ~config.dryRun /\ hostMissing # {})
      => starts[s].pc = "gate"

\* what a start() call that found no secret must leave alone
NoSessionBy(s) ==
  /\ UNCHANGED <<active, startTime, currentLoopTask, tasks, nextTask, armed,
                 activeTimeouts>>
  /\ ~HasCmd(starts'[s], LOCK_CMD, "")

\* C7: a start() call that reads no secret, or a blank one, prompts the
\* user and then returns, whatever the user answers or enters and once the
\* secret entered is stored; none of its steps changes active, the timestamp, the timeouts or the continuation,
\* creates a cycle or invokes the lock command.
C7_NoSecretNoSession ==
  [][\A s \in StartIds :
       StartMoved(s) =>
         /\ (starts[s].pc = "getSecret" /\ ~Truthy(OptTrim(starts[s].answer)))
              => (starts'[s].pc = "prompt" /\ NoSessionBy(s))
         /\ starts[s].pc = "prompt"
              => /\ NoSessionBy(s)
                 /\ \/ starts'[s].pc = "inputBox"
                    \/ starts'[s].outcome = "noSecret"
         /\ starts[s].pc = "inputBox"
              => /\ NoSessionBy(s)
                 /\ \/ starts'[s].pc = "store"
                    \/ starts'[s].outcome = "noSecret"
         /\ starts[s].pc = "store"
              => /\ NoSessionBy(s)
                 /\ starts'[s].outcome = "noSecret"]_vars

\* C7 witness: a start() call returned without a session although the user
\* entered a secret at its prompt.
C7_Witness ==
  \E s \in StartIds :
    /\ starts[s].outcome = "noSecret"
    /\ Truthy(secretStore)
    /\ ~active
    /\ nextTask = 0

\* C8: a step of a start() call that has not itself activated the
\* scheduler, taken while active is true, changes neither active, the start
\* timestamp, the timeouts nor the continuation, creates no cycle and
\* invokes no lock command.
C8_StartWhileActive ==
  [][\A s \in StartIds :
       (active /\ StartMoved(s) /\ starts[s].pc # "initialLock") =>
         /\ UNCHANGED <<active, startTime, activeTimeouts, armed,
                        currentLoopTask, tasks, nextTask>>
         /\ ~HasCmd(starts'[s], LOCK_CMD, "")]_vars

\* C8 witness: a start() call returned because the scheduler was active.
C8_Witness ==
  \E s \in StartIds : starts[s].outcome = "alreadyActive"

Stopped == ~active /\ activeTimeouts = {} /\ currentLoopTask = 0

\* C9: every stop() or dispose() call ends with active false, no pending
\* timeout and a null continuation, and a call made in that state changes
\* nothing at all.
C9_StopIdempotent ==
  [][(Stop \/ Dispose) => (Stopped' /\ ~Stopped)]_vars

\* C9 witness: stop() has cancelled a sleeping cycle and the scheduler is
\* at rest.
C9_Witness ==
  Stopped /\ \E t \in TaskIds : tasks[t].cancelled # "no"

\* a cycle is entered (line 361 passed) with the duration used up
ExpiredEntry(t) ==
  /\ tasks[t].pc = "getSecret"
  /\ ~loopAborts(OptTrim(tasks[t].answer), active)
  /\ hasTimeExpired(now, startTime, parseDuration(config.duration))

OnlySessionCmds(r) ==
  \A i \in 1..Len(r.cmds) : r.cmds[i].cmd = LOGINCTL_CMD

\* C10: a cycle entered with elapsed time >= the duration goes into session
\* termination, once; it issues only session-manager commands, creates no
\* continuation, and ends with active false (stated as the claim has it;
\* the code violates it).
C10_ExpiryTerminatesAndStops ==
  [][\A t \in TaskIds :
       tasks'[t] # tasks[t] =>
         /\ ExpiredEntry(t)
              => /\ tasks'[t].pc = "listSessions"
                 /\ OnlySessionCmds(tasks'[t])
                 /\ nextTask' = nextTask
         /\ tasks[t].pc \in {"listSessions", "terminate"}
              => \/ /\ tasks[t].pc = "listSessions"
                    /\ tasks'[t].pc = "terminate"
                    /\ OnlySessionCmds(tasks'[t])
                    /\ nextTask' = nextTask
                 \/ /\ tasks'[t].exit = "expired"
                    /\ ~active'
                    /\ nextTask' = nextTask]_vars

\* C11: in an undisturbed run, once a start() call has started the
\* scheduler, the loop eventually reaches session termination and the
\* scheduler is inactive.
C11_RunEndsByDuration ==
  (\E s \in StartIds : starts[s].outcome = "started")
    ~> (~active /\ \E t \in TaskIds : tasks[t].exit = "expired")

\* the cycles that ran to their end
Completed == {t \in TaskIds : tasks[t].exit = "completed"}

OneLockOnly(r) ==
  /\ Len(r.cmds) = 1
  /\ r.cmds[1].cmd = LOCK_CMD

\* C12: with stopAfterCycles = N > 0 and an undisturbed run, a cycle that
\* ends has locked, typed the secret and sent Return; never more than N
\* cycles complete; the call that takes the final lock issues that one lock
\* and nothing else, and when it ends exactly N cycles have completed, no
\* further call is made and active is false; and a started run does get
\* there.
C12_CountedCycles ==
  /\ [](Cardinality(Completed) <= config.stopAfterCycles)
  /\ [][\A t \in TaskIds :
          /\ (tasks'[t].exit = "completed" /\ tasks[t].exit # "completed")
               => /\ HasCmd(tasks[t], LOCK_CMD, "")
                  /\ HasCmd(tasks[t], XDOTOOL_CMD, "type")
                  /\ HasCmd(tasks[t], XDOTOOL_CMD, "key")
          /\ (tasks[t].pc = "finalLock" /\ tasks'[t].pc # "finalLock")
               => /\ OneLockOnly(tasks[t])
                  /\ tasks'[t].exit = "final"
                  /\ Cardinality(Completed) = config.stopAfterCycles
                  /\ nextTask' = nextTask
                  /\ ~active']_vars
  /\ ((\E s \in StartIds : starts[s].outcome = "started")
        ~> (~active /\ \E t \in TaskIds : tasks[t].exit = "final"))

\* C12 witness: two cycles have completed, the final lock has run and the
\* scheduler is inactive.
C12_Witness ==
  /\ config.stopAfterCycles = 2
  /\ Cardinality(Completed) = 2
  /\ \E t \in TaskIds : tasks[t].exit = "final"
  /\ ~active

\* the commands a call has issued, without the display-off calls that are
\* not awaited, each as <<program, subcommand, argument>>
Awaited(r) ==
  LET c == SelectSeq(r.cmds, LAMBDA x : x.cmd # XSET_CMD)
  IN  [i \in 1..Len(c) |-> <<c[i].cmd, c[i].sub, c[i].arg>>]

DeviceCmds(sub, ids) ==
  [i \in 1..Len(ids) |-> <<XINPUT_CMD, sub, IdToString(ids[i])>>]

UpToLockedHold(r) ==
  << <<XINPUT_CMD, "list", <<>>>>, <<XINPUT_CMD, "list", <<>>>>,
     <<LOCK_CMD, "", <<>>>> >>

UpToUnlockedHold(r) ==
  UpToLockedHold(r)
    \o DeviceCmds("disable", r.mouseIds)
    \o DeviceCmds("disable", r.keyboardIds)
    \o << <<LOCK_CMD, "", <<>>>>, <<XDOTOOL_CMD, "type", r.secret>>,
          <<XDOTOOL_CMD, "key", <<"Return">>>> >>

WholeCycle(r) ==
  UpToUnlockedHold(r)
    \o DeviceCmds("enable", r.mouseIds)
    \o DeviceCmds("enable", r.keyboardIds)

\* C13: a cycle in its locked hold has issued the two device queries and
\* the lock and nothing else; a cycle in its unlocked hold has added the
\* disable of every device found, the second lock, the typing of the secret
\* and Return, in that order; a cycle that completes has added the enable of
\* every device found; and the call a completing cycle creates has issued
\* no command yet.
C13_CommandOrder ==
  /\ [](\A t \in TaskIds :
          /\ tasks[t].pc = "sleep1"
               => Awaited(tasks[t]) = UpToLockedHold(tasks[t])
          /\ tasks[t].pc = "sleep2"
               => Awaited(tasks[t]) = UpToUnlockedHold(tasks[t]))
  /\ [][\A t \in TaskIds :
          (tasks[t].exit # "completed" /\ tasks'[t].exit = "completed")
            => /\ Awaited(tasks[t]) = WholeCycle(tasks[t])
               /\ \A u \in TaskIds :
                    (tasks[u].pc = "none" /\ tasks'[u].pc # "none")
                      => tasks'[u].cmds = <<>>]_vars

\* C13 witness: a cycle that found two mice is in its unlocked hold, with
\* both disable commands issued.
C13_Witness ==
  \E t \in TaskIds :
    /\ tasks[t].pc = "sleep2"
    /\ Len(tasks[t].mouseIds) = 2
    /\ HasCmd(tasks[t], XINPUT_CMD, "disable")

ThirtyMinutes == FromInt[30 * 60 * 1000]

\* the violation the settings show, "" when there is none: min above 30
\* minutes, max above 30 minutes, min above max
Violation(cfg) ==
  LET minMs == parseDuration(cfg.lockIntervalMin)
      maxMs == parseDuration(cfg.lockIntervalMax)
  IN  IF NumGt(minMs, ThirtyMinutes) THEN "minExceeds"
      ELSE IF NumGt(maxMs, ThirtyMinutes) THEN "maxExceeds"
      ELSE IF NumGt(minMs, maxMs) THEN "minGreaterThanMax"
      ELSE ""

\* C14: a cycle that passes the secret check and reads, at that moment,
\* settings whose intervals show a violation ends in that same step: it has
\* issued no command, it reports that violation, active is false, no
\* timeout is pending and no further loopTask call is made.
C14_InvalidAtCycleEntry ==
  [][\A t \in TaskIds :
       ( /\ tasks[t].pc = "getSecret"
         /\ tasks'[t].pc # "getSecret"
         /\ ~loopAborts(OptTrim(tasks[t].answer), active)
         /\ Violation(config) # "" )
         => /\ tasks[t].cmds = <<>>
            /\ tasks'[t].pc = "done"
            /\ tasks'[t].exit = Violation(config)
            /\ ~active'
            /\ activeTimeouts' = {}
            /\ armed' = armed \ activeTimeouts
            /\ nextTask' = nextTask]_vars

\* C14 witness: the second cycle of a run found the settings edited to
\* min > max and stopped the run.
C14_Witness ==
  /\ \E t \in TaskIds : tasks[t].exit = "completed"
  /\ \E t \in TaskIds : tasks[t].exit = "minGreaterThanMax"
  /\ ~active
  /\ activeTimeouts = {}

\* C15: the locked hold a cycle is in was scheduled for a length that is a
\* number between the minimum and the maximum interval that cycle read, at
\* most 30 minutes, and equal to them when they are equal.
C15_LockedHoldWithinBounds ==
  \A t \in TaskIds :
    tasks[t].pc = "sleep1" =>
      LET r == tasks[t]
      IN  /\ NumGe(r.lockIntervalMs, r.minMs)
          /\ NumGe(r.maxMs, r.lockIntervalMs)
          /\ NumGe(ThirtyMinutes, r.lockIntervalMs)
          /\ (r.minMs = r.maxMs => r.lockIntervalMs = r.minMs)

\* the commands a step added to a frame
Added(before, after) ==
  { after.cmds[i] : i \in (Len(before.cmds) + 1)..Len(after.cmds) }

\* C16: in a step taken while dryRun is set, every command a start() or
\* loopTask call hands to the executor is logged and not spawned, and no
\* call is rejected by a command.
C16_DryRunNeverSpawns ==
  [][config.dryRun =>
       /\ \A t \in TaskIds :
            /\ \A c \in Added(tasks[t], tasks'[t]) : c.mode = "log"
            /\ tasks'[t].pc = "failed" => tasks[t].pc = "failed"
       /\ \A s \in StartIds :
            /\ \A c \in Added(starts[s], starts'[s]) : c.mode = "log"
            /\ starts'[s].pc = "failed" => starts[s].pc = "failed"]_vars

\* C16 witness: a dry run on a host without xdotool where every program
\* would fail to spawn has completed a cycle and, the duration being over,
\* has logged the session termination command.
C16_Witness ==
  /\ config.dryRun
  /\ hostMissing # {}
  /\ \E t \in TaskIds : tasks[t].exit = "completed"
  /\ \E t \in TaskIds :
       /\ tasks[t].pc = "terminate"
       /\ HasCmd(tasks[t], LOGINCTL_CMD, "terminate-session")
       /\ \A i \in DOMAIN tasks[t].cmds : tasks[t].cmds[i].mode = "log"

\* the commands a call has handed to the executor, each as
\* <<program, subcommand, argument>>, logged or spawned alike
Issued(r) == [i \in 1..Len(r.cmds) |-> <<r.cmds[i].cmd, r.cmds[i].sub, r.cmds[i].arg>>]

DisplayOff == <<XSET_CMD, "dpms", <<"force", "off">>>>

\* lines 419-478: the commands of a whole cycle, for the secret and the
\* devices of the usual listing, whatever the mode
CycleCommands(secret) ==
  LET mice == getMouseIds(Ok(MockListing))
      keyboards == getKeyboardIds(Ok(MockListing))
  IN  << <<XINPUT_CMD, "list", <<>>>>, <<XINPUT_CMD, "list", <<>>>>,
         <<LOCK_CMD, "", <<>>>>, DisplayOff, DisplayOff >>
        \o DeviceCmds("disable", mice) \o DeviceCmds("disable", keyboards)
        \o << <<LOCK_CMD, "", <<>>>>, <<XDOTOOL_CMD, "type", secret>>,
              DisplayOff, <<XDOTOOL_CMD, "key", <<"Return">>>>, DisplayOff,
              DisplayOff >>
        \o DeviceCmds("enable", mice) \o DeviceCmds("enable", keyboards)

\* lines 300-350: the commands of session termination
ExpiryCommands ==
  << <<LOGINCTL_CMD, "list-sessions", <<"--no-legend">>>>,
     <<LOGINCTL_CMD, "terminate-session", FirstSession(MockSessions)>> >>

\* lines 95-112, 561: the commands of start(), with and without the gate
GateCommands ==
  [i \in 1..Len(REQUIRED_BINARIES) |-> <<"which", "", <<REQUIRED_BINARIES[i]>>>>]

\* how many commands a loopTask call has issued when it waits at pc
IssuedAt(pc) ==
  CASE pc = "getSecret" -> 0
    [] pc = "listSessions" -> 1
    [] pc = "terminate" -> 2
    [] pc = "mouseIds" -> 1
    [] pc = "keyboardIds" -> 2
    [] pc = "lock1" -> 3
    [] pc = "sleep1" -> 4
    [] pc = "disableMouse" -> 6
    [] pc = "disableKeyboard" -> 7
    [] pc = "lock2" -> 8
    [] pc = "type" -> 9
    [] pc = "key" -> 11
    [] pc = "sleep2" -> 12
    [] pc = "enableMouse" -> 14
    [] pc = "enableKeyboard" -> 15
    [] OTHER -> 0

PastMouseQuery ==
  {"keyboardIds", "lock1", "sleep1", "disableMouse", "disableKeyboard",
   "lock2", "type", "key", "sleep2", "enableMouse", "enableKeyboard"}

PastKeyboardQuery == PastMouseQuery \ {"keyboardIds"}

\* the device listings call r has read so far were the mock ones
ReadMockListings(r) ==
  /\ r.pc \in PastMouseQuery => r.mouseIds = getMouseIds(Ok(MockListing))
  /\ r.pc \in PastKeyboardQuery
       => r.keyboardIds = getKeyboardIds(Ok(MockListing))

\* the commands a call has handed to the executor at each point of its
\* course are a fixed sequence that depends on the point reached and on the
\* secret only, the same logged and spawned
SameCommandsAtEachPoint ==
  /\ \A t \in TaskIds :
       LET r == tasks[t]
       IN  ReadMockListings(r) =>
             Issued(r) =
               IF r.pc \in {"listSessions", "terminate"}
                 THEN SubSeq(ExpiryCommands, 1, IssuedAt(r.pc))
                 ELSE SubSeq(CycleCommands(r.secret), 1, IssuedAt(r.pc))
  /\ \A s \in StartIds :
       LET r == starts[s]
       IN  /\ r.pc = "gate"
                => Issued(r) = SubSeq(GateCommands, 1, r.probe)
           /\ r.pc \in {"getSecret", "prompt", "inputBox", "store"}
                => Issued(r) \in {<<>>, GateCommands}
           /\ r.pc = "initialLock"
                => Issued(r) \in { <<<<LOCK_CMD, "", <<>>>>>>,
                                   GateCommands \o <<<<LOCK_CMD, "", <<>>>>>> }
           /\ r.pc \notin {"gate", "getSecret", "prompt", "inputBox",
                            "store", "initialLock"}
                => Issued(r) = <<>>

\* C17: on a host that has every binary and fails no command, and in calls
\* whose device listings were read as the mock ones, the commands handed to
\* the executor are the same in dry-run (logged) and in real mode (spawned):
\* at each point of a call they are the same fixed sequence, and a start()
\* call is never turned back at the binary gate, as none is in dry-run
\* (stated as the claim has it; the code violates it).
C17_SameCommandsInBothModes ==
  /\ SameCommandsAtEachPoint
  /\ \A s \in StartIds : starts[s].outcome # "missingBinaries"

\* a dry run has logged the whole command sequence of a cycle
WholeCycleLogged ==
  /\ config.dryRun
  /\ \E t \in TaskIds :
       /\ tasks[t].pc = "enableKeyboard"
       /\ Len(tasks[t].cmds) = Len(CycleCommands(tasks[t].secret))
       /\ \A i \in DOMAIN tasks[t].cmds : tasks[t].cmds[i].mode = "log"

\* lines 35-38: the line logCommand writes for command c, as its parts:
\* the prefix, the program and the arguments joined by spaces
logCommand(c) == <<"[BlueBerry] Would execute:", c.cmd, c.sub, c.arg>>

\* the lines a call has logged in dry-run
Logged(r) ==
  LET c == SelectSeq(r.cmds, LAMBDA x : x.mode = "log")
  IN  [i \in 1..Len(c) |-> logCommand(c[i])]

\* C18: every line logged for the typing command reads
\* 'xdotool type ***', whatever the secret (stated as the claim has it; the
\* code violates it).
C18_TypingLogMasksSecret ==
  \A t \in TaskIds :
    \A i \in DOMAIN Logged(tasks[t]) :
      LET line == Logged(tasks[t])[i]
      IN  (line[2] = XDOTOOL_CMD /\ line[3] = "type")
            => line[4] = <<"*", "*", "*">>

\* the points of a cycle past the first and past the second device query
\* C19: in dry-run the device queries are answered with the fixed listing,
\* whatever the host would list: a cycle finds the mouse ids [9] and the
\* keyboard ids [10].
C19_DryRunDeviceIds ==
  /\ getMouseIds(Ok(MockListing)) = <<9>>
  /\ getKeyboardIds(Ok(MockListing)) = <<10>>
  /\ config.dryRun =>
       \A t \in TaskIds :
         /\ tasks[t].pc \in {"mouseIds", "keyboardIds"}
              => ListingOutcomes(tasks[t]) = {Ok(MockListing)}
         /\ tasks[t].pc \in PastMouseQuery => tasks[t].mouseIds = <<9>>
         /\ tasks[t].pc \in PastKeyboardQuery => tasks[t].keyboardIds = <<10>>

\* C19 witness: a dry-run cycle on a host that may list other devices, or
\* fail to list them, is in its locked hold with the ids 9 and 10.
C19_Witness ==
  /\ config.dryRun
  /\ hostListings # {MockListing}
  /\ XINPUT_CMD \in hostFaults
  /\ \E t \in TaskIds :
       /\ tasks[t].pc = "sleep1"
       /\ tasks[t].mouseIds = <<9>>
       /\ tasks[t].keyboardIds = <<10>>

\* a decimal number: digits with at most one dot among them
IsDecimal(s) ==
  /\ \A i \in DOMAIN s : s[i] \in DigitChars \cup {"."}
  /\ \E i \in DOMAIN s : s[i] \in DigitChars
  /\ Cardinality({i \in DOMAIN s : s[i] = "."}) <= 1

\* a decimal number immediately followed by one unit letter
IsDurationText(t) ==
  /\ Len(t) >= 2
  /\ t[Len(t)] \in {"h", "m", "s", "H", "M", "S"}
  /\ IsDecimal(SubSeq(t, 1, Len(t) - 1))

\* the number of milliseconds the text t stands for, as the integer
\* digits and the factors of digits * factor * ... / 10^decimals
DurationValue(t) ==
  LET number == SubSeq(t, 1, Len(t) - 1)
      dot == IF \E i \in DOMAIN number : number[i] = "."
               THEN CHOOSE i \in DOMAIN number : number[i] = "."
               ELSE Len(number) + 1
  IN  [digits |-> SelectSeq(number, LAMBDA c : c \in DigitChars),
       decimals |-> IF dot <= Len(number) THEN Len(number) - dot ELSE 0,
       factors |-> CASE t[Len(t)] \in {"h", "H"} -> <<60, 60, 1000>>
                     [] t[Len(t)] \in {"m", "M"} -> <<60, 1000>>
                     [] OTHER -> <<1000>>]

BigProduct[a \in BigNat, factors \in Seq(Nat)] ==
  IF factors = <<>> THEN a
  ELSE BigProduct[BigTimes[a, Head(factors), 0], Tail(factors)]

\* the number x is the value v exactly:
\* x.m * 2^x.e * 10^decimals = digits * factor * ...
IsValue(x, v) ==
  /\ ~x.nan
  /\ ~x.neg
  /\ LET lhs == BigProduct[x.m, [i \in 1..v.decimals |-> 10]]
         rhs == BigProduct[BigOfDigits[v.digits], v.factors]
     IN  IF x.e >= 0 THEN BigShiftLeft[lhs, x.e] = rhs
         ELSE lhs = BigShiftLeft[rhs, 0 - x.e]

\* the number x is what the setting d must parse to
IsParsed(x, d) ==
  IF IsDurationText(Trim(d)) THEN IsValue(x, DurationValue(Trim(d)))
  ELSE x = FromInt[3600000]

\* the points of a cycle at which the intervals it read are held
PastEntry == PastMouseQuery \cup {"mouseIds", "listSessions", "terminate"}

\* C20: an interval setting that, trimmed, is a decimal number followed by
\* h, m or s in either case parses to the number times 3600000, 60000 or
\* 1000 without an error logged, and every other setting parses to 3600000
\* with an error logged; the cycle that read the setting holds that value
\* (stated as the claim has it; the code violates it).
C20_ParseDuration ==
  LET d == config.lockIntervalMin
  IN  /\ IsParsed(parseDuration(d), d)
      /\ parseDurationLogsError(d) = ~IsDurationText(Trim(d))
      /\ \A t \in TaskIds :
           tasks[t].pc \in PastEntry => IsParsed(tasks[t].minMs, d)

\* C21: an interval setting whose trimmed text is not one decimal number
\* followed by one unit letter -- two dots in the number, no digit, no unit,
\* a foreign unit, the unit first, nothing, blanks only -- parses to the
\* one-hour fallback with the error logged (stated as the claim has it; the
\* code violates it).
C21_RejectsMalformed ==
  LET d == config.lockIntervalMax
  IN  ~IsDurationText(Trim(d))
        => /\ parseDuration(d) = FromInt[DEFAULT_DURATION_MS]
           /\ parseDurationLogsError(d)

\* minMs <= maxMs <= 30 minutes, as numbers compare
WithinLimits(minMs, maxMs) ==
  NumGe(maxMs, minMs) /\ NumGe(ThirtyMinutes, maxMs)

\* C22: validateLockIntervals answers valid exactly when
\* minMs <= maxMs <= 30 minutes, and otherwise the first that applies of:
\* min above 30 minutes, max above 30 minutes, min above max; start()
\* refuses the intervals exactly when they are not valid and a cycle goes
\* on only with intervals within the limits (stated as the claim has it;
\* the code violates it).
C22_ValidExactlyWithinLimits ==
  LET minMs == parseDuration(config.lockIntervalMin)
      maxMs == parseDuration(config.lockIntervalMax)
      answer == validateLockIntervals(minMs, maxMs)
  IN  /\ (answer = "valid") = WithinLimits(minMs, maxMs)
      /\ answer = "minExceeds" => NumGt(minMs, ThirtyMinutes)
      /\ answer = "maxExceeds"
           => ~NumGt(minMs, ThirtyMinutes) /\ NumGt(maxMs, ThirtyMinutes)
      /\ answer = "minGreaterThanMax"
           => /\ ~NumGt(minMs, ThirtyMinutes)
              /\ ~NumGt(maxMs, ThirtyMinutes)
              /\ NumGt(minMs, maxMs)
      /\ \A s \in StartIds :
           /\ starts[s].outcome = "invalidIntervals"
                => ~WithinLimits(minMs, maxMs)
           /\ starts[s].pc = "initialLock" => WithinLimits(minMs, maxMs)
      /\ \A t \in TaskIds :
           tasks[t].pc = "mouseIds"
             => WithinLimits(tasks[t].minMs, tasks[t].maxMs)

\* what the Secret Store may hold after setSecret(): the trimmed input, or
\* what it held when the input box was cancelled or left empty
AfterSetSecret(old) ==
  {old} \cup { Trim(pw) : pw \in SecretInputs \ {Undefined, <<>>} }

\* C23: a step of setSecret() or clearSecret(), called on its own or by
\* start() after its prompt, leaves active, the start timestamp, the pending
\* timeouts, the loop handle and every loopTask call as they were; the
\* Secret Store then holds nothing (clearSecret), the trimmed input, or its
\* former content when the input was cancelled or empty.
C23_SecretOpsOnlyTouchStore ==
  [][/\ envOps' # envOps
          => /\ UNCHANGED <<active, startTime, activeTimeouts, armed,
                            currentLoopTask, tasks, nextTask, starts,
                            requiredBinariesChecked>>
             /\ secretStore' \in AfterSetSecret(secretStore) \cup {Undefined}
     /\ \A s \in StartIds :
          (starts[s].pc = "inputBox" /\ starts'[s].pc # "inputBox")
            => /\ UNCHANGED <<active, startTime, activeTimeouts, armed,
                              currentLoopTask, tasks, nextTask>>
               /\ secretStore' \in AfterSetSecret(secretStore)
     /\ \A s \in StartIds :
          (starts[s].pc = "store" /\ starts'[s].pc # "store")
            => UNCHANGED <<active, startTime, activeTimeouts, armed,
                           currentLoopTask, tasks, nextTask, secretStore>>]_vars

\* C23 witness: while a cycle is in its locked hold the secret was replaced
\* by the trimmed form of a blank input; the run is as it was.
C23_Witness ==
  /\ active
  /\ envOps > 0
  /\ secretStore = <<>>
  /\ \E t \in TaskIds :
       tasks[t].pc = "sleep1" /\ t \in activeTimeouts /\ tasks[t].secret = <<"p">>

\* the commands of program cmd among those call r has issued
CmdsOf(r, cmd) == SelectSeq(r.cmds, LAMBDA c : c.cmd = cmd)

\* C24: the step of start() that finds a secret, an inactive scheduler and
\* valid intervals sets active, records the time and issues one lock command
\* without making a loopTask call; while start() waits for that lock it has
\* issued exactly one lock and, besides the gate's `which` probes, nothing
\* else; and start() makes the first loopTask call only in the step in
\* which the lock it waited for completes.
C24_StartLocksOnceThenLoops ==
  /\ [][\A s \in StartIds :
          /\ (starts[s].pc = "getSecret" /\ starts'[s].pc = "initialLock")
               => /\ ~active /\ active'
                  /\ startTime' = now
                  /\ starts'[s].cmds =
                       Append(starts[s].cmds, Command(LOCK_CMD, "", <<>>))
                  /\ UNCHANGED <<tasks, nextTask, currentLoopTask>>
          /\ starts'[s].outcome = "started" /\ starts[s].outcome # "started"
               => /\ starts[s].pc = "initialLock"
                  /\ LastCmd(starts[s]) = LOCK_CMD
                  /\ nextTask' = nextTask + 1
                  /\ tasks'[nextTask'].pc = "getSecret"
                  /\ tasks'[nextTask'].cmds = <<>>]_vars
  /\ [](\A s \in StartIds :
          /\ starts[s].pc = "initialLock"
               => Len(CmdsOf(starts[s], LOCK_CMD)) = 1
          /\ \A i \in DOMAIN starts[s].cmds :
               starts[s].cmds[i].cmd \in {"which", LOCK_CMD})
  /\ [][nextTask' # nextTask
          => \/ \E s \in StartIds :
                  starts[s].pc = "initialLock" /\ starts'[s].outcome = "started"
             \/ \E t \in TaskIds :
                  tasks[t].pc = "enableKeyboard" /\ tasks'[t].exit = "completed"]_vars

\* C24 witness: a start() call with real commands has returned after its
\* initial lock, leaving the scheduler active and the first loopTask call
\* at its start.
C24_Witness ==
  /\ ~config.dryRun
  /\ active
  /\ \E s \in StartIds : starts[s].outcome = "started"
  /\ nextTask = 1
  /\ tasks[1].pc = "getSecret"

\* loopTask call t returns in this step with the given exit
ExitsWith(t, exits) == tasks[t].exit = "none" /\ tasks'[t].exit \in exits

\* C25: a loopTask call is made by the loop only in the step in which a
\* cycle returns after its last enable command, with active true at that
\* step; a cycle that completes while active is false, or that returns at
\* its entry or after a sleep, makes no call.
C25_ContinuationOnlyWhenActive ==
  [][/\ (nextTask' # nextTask /\ \A s \in StartIds : starts'[s] = starts[s])
          => /\ active
             /\ \E t \in TaskIds :
                  /\ tasks[t].pc = "enableKeyboard"
                  /\ tasks[t].idx >= Len(tasks[t].keyboardIds)
                  /\ ExitsWith(t, {"completed"})
                  /\ currentLoopTask' = nextTask'
     /\ \A t \in TaskIds :
          /\ (ExitsWith(t, {"completed"}) /\ ~active)
               => UNCHANGED <<nextTask, currentLoopTask>>
          /\ ExitsWith(t, {"abort", "stopped1", "stopped2"})
               => UNCHANGED <<nextTask, currentLoopTask>>]_vars

\* C25 witness: stop() landed while a cycle was re-enabling the devices;
\* the cycle ran to its end and made no further call.
C25_Witness ==
  /\ ~active
  /\ nextTask = 1
  /\ tasks[1].exit = "completed"

\* C26: where no lock or typing command fails, a cycle past its locked
\* hold goes from command to command whether or not stop() has been called
\* meanwhile: after the disable commands the second lock, after the lock
\* the typing of the secret, after the typing the Return key, after the key
\* the unlocked hold; it does not return in between.
C26_UnlockPhaseRunsThrough ==
  [][\A t \in TaskIds :
       LET r == tasks[t]
           q == tasks'[t]
       IN  /\ (r.pc \in {"disableMouse", "disableKeyboard"} /\ q # r)
                => q.pc \in {"disableMouse", "disableKeyboard", "lock2"}
           /\ (r.pc = "lock2" /\ q # r)
                => /\ q.pc = "type"
                   /\ q.cmds = Append(r.cmds,
                                      Command(XDOTOOL_CMD, "type", r.secret))
           /\ (r.pc = "type" /\ q # r)
                => /\ q.pc = "key"
                   /\ q.cmds = r.cmds \o
                        <<DpmsOff, Command(XDOTOOL_CMD, "key", <<"Return">>)>>
           /\ (r.pc = "key" /\ q # r)
                => q.pc = "sleep2" /\ t \in armed']_vars

\* C26 witness: stop() was called while a cycle was between its locked
\* hold and its unlocked hold; the cycle has typed the secret and Return
\* and is in its unlocked hold.
C26_Witness ==
  /\ ~active
  /\ \E t \in TaskIds :
       /\ tasks[t].pc = "sleep2"
       /\ tasks[t].cancelled = "no"
       /\ t \in armed
       /\ HasCmd(tasks[t], XDOTOOL_CMD, "type")
       /\ HasCmd(tasks[t], XDOTOOL_CMD, "key")

\* the points at which a cycle awaits a lock or a secret-replay command
LockOrReplay == {"lock1", "lock2", "type", "key"}

\* the scheduler is marked active, a cycle has failed and no start() or
\* loopTask call is under way
ActiveButIdle ==
  /\ active
  /\ \E t \in TaskIds : tasks[t].pc = "failed"
  /\ \A t \in TaskIds : ~InProgress(t)
  /\ \A s \in StartIds : ~InFlight(s)

\* C27: a spawned lock or secret-replay command that a cycle awaits can
\* make the cycle fail; the step in which it does leaves active, the
\* pending timeouts and the loop handle as they were and makes no loopTask
\* call; a failed cycle takes no further step; and while the scheduler is
\* active with a failed cycle and nothing under way, no cycle runs and
\* active stays true unless stop() is called.
C27_FailedCommandEndsCycling ==
  /\ [](\A t \in TaskIds :
          (/\ tasks[t].pc \in LockOrReplay
           /\ LastMode(tasks[t]) = "spawn"
           /\ LastCmd(tasks[t]) \in hostFaults)
            => ENABLED (LoopStep(t) /\ tasks'[t].pc = "failed"))
  /\ [][\A t \in TaskIds :
          /\ (tasks[t].pc \in LockOrReplay /\ tasks'[t].pc = "failed")
               => /\ tasks'[t].exit = tasks[t].pc
                  /\ UNCHANGED <<active, activeTimeouts, armed,
                                 currentLoopTask, nextTask, startTime>>
          /\ tasks[t].pc = "failed" => tasks'[t] = tasks[t]]_vars
  /\ [][ActiveButIdle
          => /\ UNCHANGED <<tasks, nextTask>>
             /\ (~active' => (activeTimeouts' = {} /\ currentLoopTask' = 0))]_vars

\* C27 witness: the typing of the secret failed to spawn; the scheduler is
\* still marked active and no cycle is running.
C27_Witness ==
  /\ ActiveButIdle
  /\ \E t \in TaskIds : tasks[t].exit = "type"

\* the ids of the devices call r has disabled or enabled
Toggled(r) ==
  { r.cmds[i].arg : i \in { j \in DOMAIN r.cmds :
      r.cmds[j].cmd = XINPUT_CMD /\ r.cmds[j].sub \in {"disable", "enable"} } }

\* the messages call r has passed to logError
LoggedErrors(r) == { r.errors[i] : i \in DOMAIN r.errors }

\* C28: on a host that lists one mouse (9) and one keyboard (10), a device
\* query that fails passes its error message to logError and leaves its
\* class with no id, and a query that does not fail logs nothing; the cycle
\* goes on to the next query and to the lock all the same; from then on it
\* toggles no device of a class left without id; and it reaches its
\* unlocked hold having issued, besides the toggles of the other class, the
\* same commands as ever.
C28_ListingFailureEmptiesClass ==
  /\ [](\A t \in TaskIds :
          /\ (tasks[t].pc = "mouseIds" /\ MayFail(tasks[t]))
               => /\ \E res \in ListingOutcomes(tasks[t]) : ~res.ok
                  /\ \A res \in ListingOutcomes(tasks[t]) :
                       ~res.ok => /\ getMouseIds(res) = <<>>
                                  /\ getMouseIdsLogs(res) = <<MouseIdsError>>
                  /\ ENABLED (/\ LoopStep(t)
                              /\ tasks'[t].mouseIds = <<>>
                              /\ tasks'[t].errors =
                                    Append(tasks[t].errors, MouseIdsError))
          /\ (tasks[t].pc = "keyboardIds" /\ MayFail(tasks[t]))
               => /\ \E res \in ListingOutcomes(tasks[t]) : ~res.ok
                  /\ \A res \in ListingOutcomes(tasks[t]) :
                       ~res.ok
                         => /\ getKeyboardIds(res) = <<>>
                            /\ getKeyboardIdsLogs(res) = <<KeyboardIdsError>>
                  /\ ENABLED (/\ LoopStep(t)
                              /\ tasks'[t].keyboardIds = <<>>
                              /\ tasks'[t].errors =
                                    Append(tasks[t].errors, KeyboardIdsError)))
  /\ [][\A t \in TaskIds :
          /\ (tasks[t].pc = "mouseIds" /\ tasks'[t] # tasks[t])
               => /\ tasks'[t].pc = "keyboardIds"
                  /\ \/ /\ tasks'[t].errors =
                             Append(tasks[t].errors, MouseIdsError)
                        /\ tasks'[t].mouseIds = <<>>
                     \/ /\ tasks'[t].errors = tasks[t].errors
                        /\ tasks'[t].mouseIds \in {<<>>, <<9>>}
          /\ (tasks[t].pc = "keyboardIds" /\ tasks'[t] # tasks[t])
               => /\ tasks'[t].pc = "lock1"
                  /\ \/ /\ tasks'[t].errors =
                             Append(tasks[t].errors, KeyboardIdsError)
                        /\ tasks'[t].keyboardIds = <<>>
                     \/ /\ tasks'[t].errors = tasks[t].errors
                        /\ tasks'[t].keyboardIds \in {<<>>, <<10>>}]_vars
  /\ [](\A t \in TaskIds :
          /\ (tasks[t].pc \in PastMouseQuery
                 /\ MouseIdsError \in LoggedErrors(tasks[t]))
               => tasks[t].mouseIds = <<>>
          /\ (tasks[t].pc \in PastKeyboardQuery
                 /\ KeyboardIdsError \in LoggedErrors(tasks[t]))
               => tasks[t].keyboardIds = <<>>
          /\ (tasks[t].pc \in PastMouseQuery /\ tasks[t].mouseIds = <<>>)
               => IdToString(9) \notin Toggled(tasks[t])
          /\ (tasks[t].pc \in PastKeyboardQuery /\ tasks[t].keyboardIds = <<>>)
               => IdToString(10) \notin Toggled(tasks[t])
          /\ tasks[t].pc = "sleep2"
               => Awaited(tasks[t]) = UpToUnlockedHold(tasks[t]))

\* C28 witness: on a host where xinput may fail to spawn, the pointer query
\* failed, logged its error and left its class empty, and the keyboard
\* query did not fail; the cycle is in its unlocked hold and has disabled
\* the keyboard only.
C28_Witness ==
  \E t \in TaskIds :
    /\ XINPUT_CMD \in hostFaults
    /\ tasks[t].pc = "sleep2"
    /\ tasks[t].errors = <<MouseIdsError>>
    /\ tasks[t].mouseIds = <<>>
    /\ tasks[t].keyboardIds = <<10>>
    /\ Toggled(tasks[t]) = {IdToString(10)}

DeviceLoops == {"disableMouse", "disableKeyboard", "enableMouse", "enableKeyboard"}

\* the list and the subcommand of the device loop call r is in
LoopIds(r) ==
  IF r.pc \in {"disableMouse", "enableMouse"} THEN r.mouseIds
  ELSE r.keyboardIds

LoopSub(r) ==
  IF r.pc \in {"disableMouse", "disableKeyboard"} THEN "disable" ELSE "enable"

\* C29: a step of a call that is in a device loop never makes the call
\* fail, whether the toggle it was waiting for resolved or not; while ids of
\* the list are left, the step issues the toggle of the next id of the list
\* and nothing else; and a call that waits for a toggle in a device loop
\* can take that step whatever the device does with the toggle, as long as
\* an id or a later step of the cycle is left.
C29_EveryDeviceIsToggled ==
  /\ [][\A t \in TaskIds :
          (tasks[t].pc \in DeviceLoops /\ tasks'[t] # tasks[t])
            => /\ tasks'[t].pc # "failed"
               /\ tasks[t].idx < Len(LoopIds(tasks[t]))
                    => tasks'[t] =
                         [Issue(tasks[t],
                            Command(XINPUT_CMD, LoopSub(tasks[t]),
                              IdToString(LoopIds(tasks[t])[tasks[t].idx + 1])))
                            EXCEPT !.idx = tasks[t].idx + 1]]_vars
  /\ [](\A t \in TaskIds :
          (/\ tasks[t].pc \in DeviceLoops
           /\ tasks[t].idx > 0
           /\ \/ tasks[t].idx < Len(LoopIds(tasks[t]))
              \/ tasks[t].pc # "enableKeyboard")
            => ENABLED LoopStep(t))

\* how many display-off calls a cycle has made when it waits at pc
DisplayOffsAt(pc) ==
  CASE pc \in {"mouseIds", "keyboardIds", "lock1"} -> 0
    [] pc = "sleep1" -> 1
    [] pc \in {"disableMouse", "disableKeyboard", "lock2", "type"} -> 2
    [] pc = "key" -> 3
    [] pc = "sleep2" -> 4
    [] pc \in {"enableMouse", "enableKeyboard"} -> 5
    [] OTHER -> 0

DisplayOffs(r) == SelectSeq(r.cmds, LAMBDA x : x.cmd = XSET_CMD)

IsPrefix(a, b) == Len(a) <= Len(b) /\ a = SubSeq(b, 1, Len(a))

\* C30: where every program, `xset` included, may fail to spawn, a cycle
\* has made at each point of its course the display-off calls of the steps
\* it has passed, and the commands it awaits are, in order, the beginning
\* of the same sequence as ever: queries, lock, disables, lock, typing,
\* Return, enables. A call whose latest command is a display-off call has
\* nothing to wait for from it: its next step never makes it fail.
C30_DisplayOffNeverAwaited ==
  /\ [](\A t \in TaskIds :
          tasks[t].pc \in PastKeyboardQuery
            => /\ Len(DisplayOffs(tasks[t])) = DisplayOffsAt(tasks[t].pc)
               /\ \A i \in DOMAIN DisplayOffs(tasks[t]) :
                    DisplayOffs(tasks[t])[i] = DpmsOff
               /\ IsPrefix(Awaited(tasks[t]), WholeCycle(tasks[t])))
  /\ [][\A t \in TaskIds :
          (/\ tasks[t].pc \in PastKeyboardQuery
           /\ Len(tasks[t].cmds) > 0
           /\ LastCmd(tasks[t]) = XSET_CMD
           /\ tasks'[t] # tasks[t])
            => tasks'[t].pc # "failed"]_vars

\* C30 witness: a real cycle on a host where `xset` may fail to spawn has
\* made its five display-off calls and is enabling the devices again.
C30_Witness ==
  \E t \in TaskIds :
    /\ tasks[t].pc = "enableKeyboard"
    /\ XSET_CMD \in hostFaults
    /\ Len(DisplayOffs(tasks[t])) = 5
    /\ \A i \in 1..5 : DisplayOffs(tasks[t])[i].mode = "spawn"
    /\ Awaited(tasks[t]) = WholeCycle(tasks[t])

\* the spellings of `mouse` explored
MouseWords == {"mouse", "Mouse", "MOUSE"}

\* the lines of a listing that are keyboards, and mice, as described: both
\* keyboard markers, or the pointer marker and `mouse` in any letter case,
\* and an id
Described(line, keyboard) ==
  /\ line.id # <<>>
  /\ IF keyboard
       THEN {"slave  keyboard", "wired keyboard"} \subseteq line.words
       ELSE /\ "slave  pointer" \in line.words
            /\ line.words \cap MouseWords # {}

DescribedIds(lines, keyboard) ==
  LET hits == SelectSeq(lines, LAMBDA l : Described(l, keyboard))
  IN  [i \in 1..Len(hits) |-> DigitsValue(hits[i].id)]

\* C31: a cycle that has queried the devices of a host holds, for each
\* class, the ids of the lines of the host's listing that are of the class
\* as described (keyboard: both keyboard markers and an id; mouse: the
\* pointer marker, `mouse` in any letter case and an id), in the order of
\* the listing, or no id, as for a query that failed (stated as the claim
\* has it; the code violates it).
C31_DeviceClassification ==
  \A t \in TaskIds :
    /\ tasks[t].pc \in PastMouseQuery
         => \E l \in hostListings \cup {<<>>} :
              tasks[t].mouseIds = DescribedIds(l, FALSE)
    /\ tasks[t].pc \in PastKeyboardQuery
         => \E l \in hostListings \cup {<<>>} :
              tasks[t].keyboardIds = DescribedIds(l, TRUE)

\* C32: the step a cycle takes at its entry, when the Secret Store holds
\* no secret (none, or blank after trimming) or active is false, returns
\* from the call and changes nothing else: the call has issued no command,
\* no timer is armed or scheduled, and no further call is created.
C32_EntryAbortIsSilent ==
  [][\A t \in TaskIds :
       (/\ tasks[t].pc = "getSecret"
        /\ tasks'[t] # tasks[t]
        /\ ~Truthy(OptTrim(tasks[t].answer)) \/ ~active)
         => /\ tasks' = [tasks EXCEPT ![t] = Returned(@, "abort")]
            /\ tasks'[t].cmds = <<>>
            /\ UNCHANGED <<active, armed, activeTimeouts, currentLoopTask,
                            nextTask, startTime, secretStore>>]_vars

\* C32 witness: with the secret in the store all along, stop() came before
\* a cycle reached its entry, and the cycle has returned from there.
C32_Witness ==
  \E t \in TaskIds :
    /\ tasks[t].pc = "done"
    /\ tasks[t].exit = "abort"
    /\ ~active
    /\ envOps = 0
    /\ Truthy(OptTrim(secretStore))

\* the session id of a session list as described: the first field of its
\* first line that is not blank, Undefined when it has no such line
DescribedSession(lines) ==
  LET filled == SelectSeq(lines, LAMBDA x : \E i \in DOMAIN x : x[i] \notin WhiteChars)
  IN  IF filled = <<>> THEN Undefined
      ELSE LET x == filled[1]
               a == CHOOSE i \in DOMAIN x :
                      /\ x[i] \notin WhiteChars
                      /\ \A j \in 1..(i - 1) : x[j] \in WhiteChars
               b == CHOOSE i \in a..Len(x) :
                      /\ \A j \in a..i : x[j] \notin WhiteChars
                      /\ i = Len(x) \/ x[i + 1] \in WhiteChars
           IN  SubSeq(x, a, b)

\* the session lists the query of call r can be answered with: the fixed
\* record in dry-run, else what `loginctl list-sessions` prints
SessionAnswers(r) ==
  IF LastMode(r) = "log" THEN {MockSessions} ELSE hostSessions

\* C33: the step that follows the session query either issues
\* `terminate-session` with the first field of the first non-blank line of
\* the session list, and nothing else, or, the query having failed or the
\* list having no non-blank line, issues nothing and stops the scheduler:
\* active is false and no timer is left. A query that can fail can end so,
\* and a query answered with a list that names a session can go on to
\* terminate it (stated as the claim has it; the code violates it).
C33_SessionTermination ==
  /\ [][\A t \in TaskIds :
          (tasks[t].pc = "listSessions" /\ tasks'[t] # tasks[t])
            => \/ \E l \in SessionAnswers(tasks[t]) :
                    /\ DescribedSession(l) # Undefined
                    /\ tasks'[t] =
                         [Issue(tasks[t],
                                Command(LOGINCTL_CMD, "terminate-session",
                                        DescribedSession(l)))
                            EXCEPT !.pc = "terminate"]
                    /\ UNCHANGED active
               \/ /\ \/ MayFail(tasks[t])
                     \/ \E l \in SessionAnswers(tasks[t]) :
                          DescribedSession(l) = Undefined
                  /\ tasks'[t].pc = "done"
                  /\ tasks'[t].exit = "expired"
                  /\ ~active'
                  /\ activeTimeouts' = {}]_vars
  /\ [](\A t \in TaskIds :
          /\ (tasks[t].pc = "listSessions" /\ MayFail(tasks[t]))
               => ENABLED (/\ LoopStep(t)
                           /\ tasks'[t].exit = "expired"
                           /\ ~active')
          /\ (/\ tasks[t].pc = "listSessions"
              /\ \E l \in SessionAnswers(tasks[t]) :
                   DescribedSession(l) # Undefined)
               => ENABLED (LoopStep(t) /\ tasks'[t].pc = "terminate"))

\* C34: whenever the scheduler is marked active and no start() call is
\* under way, some cycle is alive: it awaits a command or the secret, or it
\* sleeps on a timeout that is pending (stated as the claim has it; the code
\* violates it).
C34_ActiveMeansAlive ==
  (active /\ \A s \in StartIds : ~InFlight(s))
    => \E t \in TaskIds :
         Live(t) /\ (Asleep(t) => t \in armed /\ t \in activeTimeouts)

\* the devices call r has disabled on the host and not enabled since
StillDisabled(r) ==
  { r.cmds[i].arg : i \in { j \in DOMAIN r.cmds :
      /\ r.cmds[j].cmd = XINPUT_CMD
      /\ r.cmds[j].sub = "disable"
      /\ r.cmds[j].mode = "spawn"
      /\ \A k \in (j + 1)..Len(r.cmds) :
           ~(/\ r.cmds[k].cmd = XINPUT_CMD
             /\ r.cmds[k].sub = "enable"
             /\ r.cmds[k].arg = r.cmds[j].arg) } }

\* C35: the step by which the last cycle alive returns or fails, leaving no
\* cycle executing or suspended, is taken by a cycle that has enabled again
\* every device it disabled (stated as the claim has it; the code violates
\* it).
C35_DevicesReenabledAtRest ==
  [][\A t \in TaskIds :
       (/\ Live(t)
        /\ \A u \in TaskIds : tasks'[u].pc \in {"none", "done", "failed"})
         => StillDisabled(tasks[t]) = {}]_vars

\* C36: whenever active is false no timeout is pending: the Set of
\* timeouts is empty and no cycle sleeps on a timeout the runtime will fire
\* (stated as the claim has it; the code violates it).
C36_InactiveHasNoTimer ==
  ~active => /\ activeTimeouts = {}
             /\ \A t \in TaskIds : Asleep(t) => t \notin armed

\* C37: once start() has started the loop with stopAfterCycles = N > 0,
\* never more than N cycles run to their end, whatever becomes of the
\* setting afterwards (stated as the claim has it; the code violates it).
C37_NeverMoreThanNCycles ==
  \A s \in StartIds :
    (starts[s].outcome = "started" /\ starts[s].stopAfterCycles > 0)
      => Cardinality(Completed) <= starts[s].stopAfterCycles

\* the start() calls that have marked the scheduler active and issued the
\* initial lock
Starters ==
  { s \in StartIds :
      starts[s].pc = "initialLock" \/ starts[s].outcome = "started" }

\* with start() called again before an earlier call has returned, and
\* nothing that stops the run, one call at most marks the scheduler active
\* and issues the initial lock, once; the start timestamp is written by that
\* call and never again; one loopTask call at a time is alive
AtMostOneSession ==
  /\ [](/\ Cardinality(Starters) <= 1
        /\ \A s \in StartIds : Len(CmdsOf(starts[s], LOCK_CMD)) <= 1
        /\ Cardinality({t \in TaskIds : Live(t)}) <= 1
        /\ (Starters = {}) => (~active /\ nextTask = 0))
  /\ [][active => (active' /\ UNCHANGED startTime)]_vars
  /\ [][nextTask' # nextTask =>
          \/ \E s \in StartIds :
               starts[s].pc = "initialLock" /\ starts'[s].outcome = "started"
          \/ \E t \in TaskIds :
               tasks'[t].exit = "completed" /\ tasks[t].exit # "completed"]_vars

\* C38: start() calls that overlap on a host that has every binary, with a
\* secret stored, valid settings and nothing that stops the run, create one
\* session and no second one: when every call has returned, exactly one of
\* them has started the loop (stated as the claim has it; the code violates
\* it).
C38_OverlappingStartsOneSession ==
  /\ AtMostOneSession
  /\ []((\A s \in StartIds : starts[s].pc = "done")
          => Cardinality({s \in StartIds :
                           starts[s].outcome = "started"}) = 1)

\* a second start() call has come and gone, finding the scheduler active,
\* while the first one still awaits its initial lock
SecondStartTurnedAway ==
  \E s1, s2 \in StartIds :
    /\ starts[s1].pc = "initialLock"
    /\ starts[s2].outcome = "alreadyActive"
    /\ Len(CmdsOf(starts[s1], LOCK_CMD)) = 1
    /\ nextTask = 0

\* the lock and secret-replay commands call r has had spawned
LockAndReplay(r) ==
  SelectSeq(r.cmds, LAMBDA c :
    c.cmd \in {LOCK_CMD, XDOTOOL_CMD} /\ c.mode = "spawn")

\* C39: a step of the loop taken when the time elapsed since the start has
\* reached the configured duration has no lock and no secret-replay command
\* spawned (stated as the claim has it; the code violates it).
C39_NothingAfterDuration ==
  [][\A t \in TaskIds :
       (/\ Live(t)
        /\ hasTimeExpired(now, startTime, parseDuration(config.duration)))
         => Len(LockAndReplay(tasks'[t])) <= Len(LockAndReplay(tasks[t]))]_vars

====
